---- MODULE Spec2Model ----
(***************************************************************************)
(* BetaBarn: the gapless audio queue of TextToSpeechService                *)
(* (assets/js/speech/textToSpeechService.js) and the client-side token     *)
(* cache of AccessTokenService (assets/js/token/accessTokenService.js)     *)
(* in front of the getAccessToken function and its token providers.        *)
(*                                                                         *)
(* All times are integers in milliseconds.  JavaScript runs every          *)
(* synchronous stretch of code to completion, so one action is one such    *)
(* stretch: from a call or a resumed await up to the next await.           *)
(***************************************************************************)
EXTENDS Integers, Sequences, FiniteSets

VARIABLES
    \* ---- TextToSpeechService (one instance) ----
    currentTime,            \* audioContext.currentTime
    ctxState,               \* audioContext.state
    resumePending,          \* stop(): suspend().then(resume) not yet run
    lastQueuedEndTime,      \* this.lastQueuedEndTime
    maxQueuedDuration,      \* this.maxQueuedDuration
    queueObserverInterval,  \* this.queueObserverInterval is set
    sources,                \* buffer sources started on the audio device
    speak,                  \* the speakQueued calls and where each one is
    made,                   \* number of speakQueued calls made so far
    stops,                  \* number of stop() calls so far
    audio,                  \* per call, the durations its decoded audio may have
    backToBack,             \* every call so far was made before any synthesis ended
    \* ---- AccessTokenService (client) and the token endpoint ----
    wallClock,              \* Date.now()
    cache,                  \* this.cache, a Map, as a set of entries
    token,                  \* the getAccessToken calls and where each one is
    tokMade,                \* number of getAccessToken calls made so far
    fetches,                \* fetches of the token endpoint started so far
    issued,                 \* tokens the issuer has handed out so far
    env,                    \* process.env of the functions: which keys are set
    \* ---- AccessTokenService (functions/services/tokenService.js) ----
    service,                \* the broker object: providers, defaultProvider
    get,                    \* the getToken calls and where each one is
    getMade,                \* number of getToken calls made so far
    available,              \* what getAvailableProviders returned, per call
    asked,                  \* what hasProvider and getProviderInfo returned
    \* ---- one translation request: streaming handler and its LLM service ----
    adapter,                \* the service translateStream is called on
    llm,                    \* the translateStream call and where it is
    attempts,               \* fetches fetchWithRetry has started
    responses,              \* the statuses of the responses it got, in order
    waited,                 \* the delays it passed to setTimeout, in order
    events,                 \* the onChunk calls made: text and isDone
    stream,                 \* the handler: previousText, chunkIndex, SSE data
    \* ---- getLLMService ----
    sentence,               \* the text the calls are made with
    routed,                 \* the class of the service each call returned
    \* ---- the page: translateDetectedText and translateStreamText ----
    client,                 \* the translateStreamText call and where it is
    received,               \* what reader.read() gave so far: lines per read
    delivered,              \* the onChunk calls made: text and isDone
    page,                   \* the streaming message and its typing animation
    detect,                 \* where the translateDetectedText call is
    spoken,                 \* the texts passed to speakQueued
    \* ---- TextToSpeechService: the voice list ----
    voiceNow,               \* Date.now()
    voicesCache,            \* this.voicesCache
    voicesCacheTimestamp,   \* this.voicesCacheTimestamp, 0 for null
    upstream,               \* the list getVoicesAsync resolves with
    voiceCalls              \* the getVoices calls and what each returned

ttsVars == <<currentTime, ctxState, resumePending, lastQueuedEndTime,
             maxQueuedDuration, queueObserverInterval, sources, speak, made,
             stops, audio, backToBack>>
tokVars == <<wallClock, cache, token, tokMade, fetches, issued, env>>
brokerVars == <<service, get, getMade, available, asked>>
streamVars == <<adapter, llm, attempts, responses, waited, events, stream>>
routeVars == <<sentence, routed>>
clientVars == <<client, received, delivered, page, detect, spoken>>
voiceVars == <<voiceNow, voicesCache, voicesCacheTimestamp, upstream, voiceCalls>>
vars == <<ttsVars, tokVars, brokerVars, streamVars, routeVars, clientVars,
          voiceVars>>

\* what the actions of one component leave alone
exceptTts ==
    <<tokVars, brokerVars, streamVars, routeVars, clientVars, voiceVars>>
exceptTok ==
    <<ttsVars, brokerVars, streamVars, routeVars, clientVars, voiceVars>>
exceptBroker ==
    <<ttsVars, tokVars, streamVars, routeVars, clientVars, voiceVars>>
exceptStream ==
    <<ttsVars, tokVars, brokerVars, routeVars, clientVars, voiceVars>>
exceptRoute ==
    <<ttsVars, tokVars, brokerVars, streamVars, clientVars, voiceVars>>
exceptClient ==
    <<ttsVars, tokVars, brokerVars, streamVars, routeVars, voiceVars>>
exceptVoice ==
    <<ttsVars, tokVars, brokerVars, streamVars, routeVars, clientVars>>

Max(a, b) == IF a >= b THEN a ELSE b

(***************************************************************************)
(* Bounds of the model.                                                    *)
(***************************************************************************)
MaxCalls == 3       \* speakQueued calls in one run
MaxStops == 1       \* stop() calls in one run
MaxTime == 2000     \* the audio clock runs from 0 to MaxTime
TickStep == 1000    \* the audio clock advances in steps of TickStep
Durations == {1000, 6000}   \* decodedBuffer.duration, in ms

(***************************************************************************)
(* Program constants.                                                      *)
(***************************************************************************)
GuardInterval == 250            \* the 0.25 added in _enqueueAndPlay
ActiveThreshold == 100          \* remaining > 0.1 in the observer
InitialMaxQueuedDuration == 10000   \* this.maxQueuedDuration = 10

Calls == 1..MaxCalls

(***************************************************************************)
(* constructor                                                             *)
(***************************************************************************)
TtsConstructed ==
    /\ currentTime = 0
    /\ ctxState = "running"
    /\ resumePending = FALSE
    /\ lastQueuedEndTime = 0
    /\ maxQueuedDuration = InitialMaxQueuedDuration
    /\ queueObserverInterval = FALSE
    /\ sources = <<>>
    /\ speak = [c \in Calls |-> "none"]
    /\ made = 0
    /\ stops = 0
    /\ backToBack = TRUE

(***************************************************************************)
(* The audio clock advances while the context runs.                        *)
(***************************************************************************)
Tick ==
    /\ ctxState = "running"
    /\ currentTime + TickStep <= MaxTime
    /\ currentTime' = currentTime + TickStep
    /\ UNCHANGED <<ctxState, resumePending, lastQueuedEndTime, maxQueuedDuration,
                   queueObserverInterval, sources, speak, made,
                   stops, audio, backToBack>>

(***************************************************************************)
(* startQueueObserver / stopQueueObserver / the setInterval callback       *)
(***************************************************************************)
StartQueueObserver ==
    /\ queueObserverInterval' = TRUE
    /\ UNCHANGED <<currentTime, ctxState, resumePending, lastQueuedEndTime,
                   maxQueuedDuration, sources, speak, made, stops,
                   audio, backToBack>>

StopQueueObserver ==
    /\ queueObserverInterval' = FALSE
    /\ UNCHANGED <<currentTime, ctxState, resumePending, lastQueuedEndTime,
                   maxQueuedDuration, sources, speak, made, stops,
                   audio, backToBack>>

Remaining(last, now) == Max(last - now, 0)

\* the status the setInterval callback hands to this.onQueueUpdate
QueueStatus(last, now, maxQueued) ==
    LET remaining == Remaining(last, now)
    IN  [remaining |-> remaining,
         maxQueuedDuration |-> Max(maxQueued, remaining),
         isQueueActive |-> remaining > ActiveThreshold]

\* as ObserverTick, but a drained queue's end time is pulled up to now
ObserverTickDrains ==
    /\ queueObserverInterval
    /\ maxQueuedDuration' =
           Max(maxQueuedDuration, Max(lastQueuedEndTime - currentTime, 0))
    /\ lastQueuedEndTime' = Max(lastQueuedEndTime, currentTime)
    /\ UNCHANGED <<currentTime, ctxState, resumePending,
                   queueObserverInterval, sources, speak, made, stops,
                   audio, backToBack>>

ObserverTick ==
    /\ queueObserverInterval
    /\ maxQueuedDuration' =
           QueueStatus(lastQueuedEndTime, currentTime, maxQueuedDuration).maxQueuedDuration
    /\ UNCHANGED <<currentTime, ctxState, resumePending, lastQueuedEndTime,
                   queueObserverInterval, sources, speak, made, stops,
                   audio, backToBack>>

(***************************************************************************)
(* speakQueued(text): up to the first await.                               *)
(***************************************************************************)
\* empty or blank text: returns at once, nothing is touched
SpeakQueuedEmpty ==
    UNCHANGED <<currentTime, ctxState, resumePending, lastQueuedEndTime,
                maxQueuedDuration, queueObserverInterval, sources, speak, made,
                stops, audio, backToBack>>

SpeakQueued(c) ==
    /\ c = made + 1
    /\ speak[c] = "none"
    /\ made' = c
    /\ speak' = [speak EXCEPT ![c] =
                    IF ctxState = "suspended" THEN "resuming" ELSE "synth"]
    /\ backToBack' = (backToBack /\ \A k \in Calls :
                          speak[k] \notin {"decode", "scheduled", "rejected"})
    /\ UNCHANGED <<currentTime, ctxState, resumePending, lastQueuedEndTime,
                   maxQueuedDuration, queueObserverInterval, sources, stops, audio>>

\* await this.audioContext.resume() has resolved
Resumed(c) ==
    /\ speak[c] = "resuming"
    /\ ctxState' = "running"
    /\ speak' = [speak EXCEPT ![c] = "synth"]
    /\ UNCHANGED <<currentTime, resumePending, lastQueuedEndTime,
                   maxQueuedDuration, queueObserverInterval, sources, made, stops, audio, backToBack>>

(***************************************************************************)
(* synthesize: speakSsmlAsync calls back with audio data or with an error. *)
(***************************************************************************)
SynthesizeDone(c) ==
    /\ speak[c] = "synth"
    /\ speak' = [speak EXCEPT ![c] = "decode"]
    /\ UNCHANGED backToBack
    /\ UNCHANGED <<currentTime, ctxState, resumePending, lastQueuedEndTime,
                   maxQueuedDuration, queueObserverInterval, sources, made, stops, audio>>

\* as SynthesizeFail, but the failed call still takes a slot of the pad's length
SynthesizeFailPads(c) ==
    /\ speak[c] = "synth"
    /\ speak' = [speak EXCEPT ![c] = "rejected"]
    /\ lastQueuedEndTime' = Max(currentTime, lastQueuedEndTime) + GuardInterval
    /\ UNCHANGED <<currentTime, ctxState, resumePending, maxQueuedDuration,
                   queueObserverInterval, sources, made, stops, audio,
                   backToBack>>

SynthesizeFail(c) ==
    /\ speak[c] = "synth"
    /\ speak' = [speak EXCEPT ![c] = "rejected"]
    /\ UNCHANGED backToBack
    /\ UNCHANGED <<currentTime, ctxState, resumePending, lastQueuedEndTime,
                   maxQueuedDuration, queueObserverInterval, sources, made, stops, audio>>

(***************************************************************************)
(* _enqueueAndPlay(decodedBuffer)                                          *)
(***************************************************************************)
\* as StartTime, but always now: the queue is not consulted
StartTimeNow(now, last) == now

\* as StartTime, but always the end of the queue: the clock is not consulted
StartTimeLast(now, last) == last

StartTime(now, last) == Max(now, last)

\* as QueueEnd, but measured from the clock's zero, not from the start time
QueueEndFromZero(startTime, bufferDuration) == bufferDuration + GuardInterval

\* as QueueEnd, without the pad
QueueEndNoGuard(startTime, bufferDuration) == startTime + bufferDuration

QueueEnd(startTime, bufferDuration) == startTime + bufferDuration + GuardInterval

\* as EnqueueAndPlay, but the new source takes the place of the last one
EnqueueAndPlayReplaces(c, bufferDuration) ==
    LET now == currentTime
        startTime == Max(now, lastQueuedEndTime)
        seg == [call |-> c, start |-> startTime, duration |-> bufferDuration,
                read |-> lastQueuedEndTime, epoch |-> stops]
    IN  /\ sources' = IF sources = <<>> THEN <<seg>>
                      ELSE [sources EXCEPT ![Len(sources)] = seg]
        /\ lastQueuedEndTime' = startTime + bufferDuration + GuardInterval

\* as EnqueueAndPlay, but a call made before the one scheduled last is put
\* in front of it, at the clock
EnqueueAndPlayInCallOrder(c, bufferDuration) ==
    LET now == currentTime
        early == sources # <<>> /\ c < sources[Len(sources)].call
        startTime == IF early THEN now ELSE Max(now, lastQueuedEndTime)
    IN  /\ sources' = Append(sources,
               [call |-> c, start |-> startTime, duration |-> bufferDuration,
                read |-> lastQueuedEndTime, epoch |-> stops])
        /\ lastQueuedEndTime' =
               Max(lastQueuedEndTime, startTime + bufferDuration + GuardInterval)

\* as EnqueueAndPlay, but working from the watermark as it was before the
\* previous enqueue wrote it
EnqueueAndPlayStale(c, bufferDuration) ==
    LET now == currentTime
        stale == IF sources = <<>> THEN lastQueuedEndTime
                 ELSE sources[Len(sources)].read
        startTime == Max(now, stale)
    IN  /\ sources' = Append(sources,
               [call |-> c, start |-> startTime, duration |-> bufferDuration,
                read |-> stale, epoch |-> stops])
        /\ lastQueuedEndTime' = startTime + bufferDuration + GuardInterval

\* A started source is kept with its start time and duration, and with a
\* record of the call it came from, the end time that was read and the
\* number of stop() calls before it.
EnqueueAndPlay(c, bufferDuration) ==
    LET now == currentTime
        startTime == StartTime(now, lastQueuedEndTime)
    IN  /\ sources' = Append(sources,
               [call |-> c, start |-> startTime, duration |-> bufferDuration,
                read |-> lastQueuedEndTime, epoch |-> stops])
        /\ lastQueuedEndTime' = QueueEnd(startTime, bufferDuration)

\* _decodeAudio resolved: speakQueued goes on to _enqueueAndPlay and returns
DecodeDone(c, bufferDuration) ==
    /\ speak[c] = "decode"
    /\ bufferDuration \in audio[c]
    /\ EnqueueAndPlay(c, bufferDuration)
    /\ speak' = [speak EXCEPT ![c] = "scheduled"]
    /\ UNCHANGED <<currentTime, ctxState, resumePending, maxQueuedDuration,
                   queueObserverInterval, made, stops,
                   audio, backToBack>>

\* _decodeAudio rejected: not an ArrayBuffer, or decodeAudioData failed
DecodeFail(c) ==
    /\ speak[c] = "decode"
    /\ speak' = [speak EXCEPT ![c] = "rejected"]
    /\ UNCHANGED <<currentTime, ctxState, resumePending, lastQueuedEndTime,
                   maxQueuedDuration, queueObserverInterval, sources, made, stops, audio, backToBack>>

(***************************************************************************)
(* stop()                                                                  *)
(***************************************************************************)
\* as Stop, but the end time is left alone
StopKeepsEndTime ==
    /\ stops < MaxStops
    /\ stops' = stops + 1
    /\ IF ctxState = "running"
         THEN ctxState' = "suspended" /\ resumePending' = TRUE
         ELSE UNCHANGED <<ctxState, resumePending>>
    /\ UNCHANGED <<currentTime, lastQueuedEndTime, maxQueuedDuration,
                   queueObserverInterval, sources, speak, made, audio,
                   backToBack>>

Stop ==
    /\ stops < MaxStops
    /\ stops' = stops + 1
    /\ lastQueuedEndTime' = 0
    /\ IF ctxState = "running"
         THEN ctxState' = "suspended" /\ resumePending' = TRUE
         ELSE UNCHANGED <<ctxState, resumePending>>
    /\ UNCHANGED <<currentTime, maxQueuedDuration, queueObserverInterval,
                   sources, speak, made, audio, backToBack>>

\* the .then of suspend() in stop(): this.audioContext.resume()
StopResume ==
    /\ resumePending
    /\ resumePending' = FALSE
    /\ ctxState' = "running"
    /\ UNCHANGED <<currentTime, lastQueuedEndTime, maxQueuedDuration,
                   queueObserverInterval, sources, speak, made,
                   stops, audio, backToBack>>

(***************************************************************************)
(* Bounds of the token model.                                              *)
(***************************************************************************)
MaxTokenCalls == 3          \* getAccessToken calls in one run
MaxWallClock == 810000      \* Date.now() runs from 0 to MaxWallClock
WallClockStep == 270000     \* Date.now() advances in steps of WallClockStep
Providers == {"null", "azure-speech", "deepgram-speech"}   \* the provider argument

cacheTimeout == 540000      \* 9 * 60 * 1000

TokCalls == 1..MaxTokenCalls
NoData == [token |-> 0, provider |-> "null", expiresIn |-> 0, issuedAt |-> 0]
NotCalled == [pc |-> "none", provider |-> "null", result |-> NoData,
              fetched |-> 0, trips |-> 0]
Envs == [AZURE_REGION : BOOLEAN, AZURE_API_KEY : BOOLEAN]

(***************************************************************************)
(* functions/services/tokenService.js: the registry built by the           *)
(* constructor, and the provider getToken resolves.                        *)
(***************************************************************************)
\* AzureSpeechProvider.validateConfig: FALSE when it throws
ValidateConfig(config) == ~(~config.region \/ ~config.apiKey)

NoProviders == [providers |-> <<>>, configs |-> <<>>, defaultProvider |-> "null",
                threw |-> FALSE]

\* as InitializeProviders, but the first provider is made the default before
\* it is known to be configured
InitializeProvidersDefaultFirst(e) ==
    IF e.AZURE_REGION /\ e.AZURE_API_KEY
    THEN [providers |-> <<"azure-speech">>,
          configs |-> <<[region |-> e.AZURE_REGION, apiKey |-> e.AZURE_API_KEY]>>,
          defaultProvider |-> "azure-speech", threw |-> FALSE]
    ELSE [providers |-> <<>>, configs |-> <<>>,
          defaultProvider |-> "azure-speech", threw |-> FALSE]

\* as InitializeProviders, but the adapter is constructed whatever the
\* environment holds and outside any try
InitializeProvidersUnguarded(e) ==
    IF ValidateConfig([region |-> e.AZURE_REGION, apiKey |-> e.AZURE_API_KEY])
    THEN [providers |-> <<"azure-speech">>,
          configs |-> <<[region |-> e.AZURE_REGION, apiKey |-> e.AZURE_API_KEY]>>,
          defaultProvider |-> "azure-speech", threw |-> FALSE]
    ELSE [providers |-> <<>>, configs |-> <<>>, defaultProvider |-> "null",
          threw |-> TRUE]

\* providers in insertion order, configs the config each adapter was made
\* with, in the same order; threw: the constructor threw
InitializeProviders(e) ==
    IF e.AZURE_REGION /\ e.AZURE_API_KEY
    THEN IF ValidateConfig([region |-> e.AZURE_REGION,
                            apiKey |-> e.AZURE_API_KEY])
         THEN [providers |-> <<"azure-speech">>,
               configs |-> <<[region |-> e.AZURE_REGION,
                              apiKey |-> e.AZURE_API_KEY]>>,
               defaultProvider |-> "azure-speech", threw |-> FALSE]
         ELSE NoProviders
    ELSE NoProviders

\* this.providers.get(name) finds an adapter
ProvidersHas(s, name) == \E i \in 1..Len(s.providers) : s.providers[i] = name

\* the provider whose getToken is called, or "null" when getToken throws
ResolveProvider(svc, providerName) ==
    LET targetProvider == IF providerName = "null" THEN svc.defaultProvider
                          ELSE providerName
    IN  IF targetProvider = "null" THEN "null"
        ELSE IF ~ProvidersHas(svc, targetProvider) THEN "null"
        ELSE targetProvider

(***************************************************************************)
(* assets/js/token/accessTokenService.js: this.cache, a Map, as the set    *)
(* of its entries.                                                         *)
(***************************************************************************)
CacheHas(m, k) == \E e \in m : e.key = k

CacheGet(m, k) == CHOOSE e \in m : e.key = k

CacheDelete(m, k) == {e \in m : e.key # k}

\* as CacheSet, but an entry already there is kept
CacheSetIfAbsent(m, k, data, timestamp) ==
    IF CacheHas(m, k) THEN m
    ELSE m \cup {[key |-> k, data |-> data, timestamp |-> timestamp]}

CacheSet(m, k, data, timestamp) ==
    CacheDelete(m, k) \cup {[key |-> k, data |-> data, timestamp |-> timestamp]}

CacheKey(provider) == IF provider = "null" THEN "default" ELSE provider

\* as Fresh, but an entry of exactly cacheTimeout is still served
FreshInclusive(cached, now) == now - cached.timestamp <= cacheTimeout

Fresh(cached, now) == now - cached.timestamp < cacheTimeout

TokConstructed ==
    /\ wallClock = 0
    /\ cache = {}
    /\ token = [c \in TokCalls |-> NotCalled]
    /\ tokMade = 0
    /\ fetches = 0
    /\ issued = 0

TokIdle == TokConstructed /\ env = [AZURE_REGION |-> TRUE, AZURE_API_KEY |-> TRUE]

TokTick ==
    /\ wallClock + WallClockStep <= MaxWallClock
    /\ wallClock' = wallClock + WallClockStep
    /\ UNCHANGED <<cache, token, tokMade, fetches, issued, env>>

(***************************************************************************)
(* getAccessToken(provider): the cache check and, on a miss, the fetch.    *)
(***************************************************************************)
GetAccessToken(c, provider) ==
    LET cacheKey == CacheKey(provider)
        hit == CacheHas(cache, cacheKey)
                  /\ Fresh(CacheGet(cache, cacheKey), wallClock)
    IN  /\ c = tokMade + 1
        /\ token[c].pc = "none"
        /\ tokMade' = c
        /\ IF hit
             THEN /\ token' = [token EXCEPT ![c] =
                        [pc |-> "returned", provider |-> provider,
                         result |-> CacheGet(cache, cacheKey).data,
                         fetched |-> 0, trips |-> 0]]
                  /\ UNCHANGED <<cache, fetches>>
             ELSE /\ cache' = CacheDelete(cache, cacheKey)
                  /\ fetches' = fetches + 1
                  /\ token' = [token EXCEPT ![c] =
                        [pc |-> "fetching", provider |-> provider,
                         result |-> NoData, fetched |-> 1, trips |-> 0]]
        /\ UNCHANGED <<wallClock, issued, env>>

\* the fetch of the token endpoint rejects: the request never arrived
FetchRejects(c) ==
    /\ token[c].pc = "fetching"
    /\ token' = [token EXCEPT ![c].pc = "threw"]
    /\ UNCHANGED <<wallClock, cache, tokMade, fetches, issued, env>>

(***************************************************************************)
(* The getAccessToken function: a new broker, then getToken, which either  *)
(* throws (status 500) or calls the provider's getToken (issuer fetch).    *)
(***************************************************************************)
Handler(c) ==
    LET tokenService == InitializeProviders(env)
        target == ResolveProvider(tokenService, token[c].provider)
    IN  /\ token[c].pc = "fetching"
        /\ token' = [token EXCEPT ![c] =
              IF target = "null" THEN [@ EXCEPT !.pc = "status500"]
              ELSE [@ EXCEPT !.pc = "issuing", !.trips = @ + 1]]
        /\ UNCHANGED <<wallClock, cache, tokMade, fetches, issued, env>>

\* AzureSpeechProvider.getToken: the issuer answers 200; expiresIn is in
\* seconds, issuedAt is the clock of the answer
IssuerOk(c) ==
    /\ token[c].pc = "issuing"
    /\ issued' = issued + 1
    /\ token' = [token EXCEPT ![c].pc = "status200",
                              ![c].result = [token |-> issued + 1,
                                             provider |-> "azure-speech",
                                             expiresIn |-> 600,
                                             issuedAt |-> wallClock]]
    /\ UNCHANGED <<wallClock, cache, tokMade, fetches, env>>

\* AzureSpeechProvider.getToken: another status, or the fetch rejects
IssuerFails(c) ==
    /\ token[c].pc = "issuing"
    /\ token' = [token EXCEPT ![c].pc = "status500"]
    /\ UNCHANGED <<wallClock, cache, tokMade, fetches, issued, env>>

(***************************************************************************)
(* getAccessToken, after await fetch.                                      *)
(***************************************************************************)
ReceiveOk(c) ==
    /\ token[c].pc = "status200"
    /\ cache' = CacheSet(cache, CacheKey(token[c].provider), token[c].result,
                         wallClock)
    /\ token' = [token EXCEPT ![c].pc = "returned"]
    /\ UNCHANGED <<wallClock, tokMade, fetches, issued, env>>

\* as ReceiveError, but the failure is remembered in the cache
ReceiveErrorCached(c) ==
    /\ token[c].pc = "status500"
    /\ cache' = CacheSet(cache, CacheKey(token[c].provider), NoData,
                         wallClock)
    /\ token' = [token EXCEPT ![c].pc = "threw"]
    /\ UNCHANGED <<wallClock, tokMade, fetches, issued, env>>

ReceiveError(c) ==
    /\ token[c].pc = "status500"
    /\ token' = [token EXCEPT ![c].pc = "threw"]
    /\ UNCHANGED <<wallClock, cache, tokMade, fetches, issued, env>>

(***************************************************************************)
(* functions/services/tokenService.js: the broker as an object, from       *)
(* new AccessTokenService() on.                                            *)
(***************************************************************************)
MaxGetCalls == 3            \* getToken calls in one run
MaxListings == 2            \* getAvailableProviders calls in one run

GetCalls == 1..MaxGetCalls
NotConstructed == [constructed |-> FALSE, providers |-> <<>>, configs |-> <<>>,
                   defaultProvider |-> "null", threw |-> FALSE]
NoGet == [pc |-> "none", providerName |-> "null", adapter |-> "null"]

BrokerIdle ==
    /\ service = NotConstructed
    /\ get = [c \in GetCalls |-> NoGet]
    /\ getMade = 0
    /\ available = <<>>
    /\ asked = <<>>

\* new AccessTokenService()
Construct ==
    LET registry == InitializeProviders(env)
    IN  /\ ~service.constructed
        /\ ~service.threw
        /\ service' = [constructed |-> ~registry.threw,
                       providers |-> registry.providers,
                       configs |-> registry.configs,
                       defaultProvider |-> registry.defaultProvider,
                       threw |-> registry.threw]
        /\ UNCHANGED <<get, getMade, available, asked>>

\* getToken up to the adapter call: the error it throws, or "none"
GetTokenError(svc, providerName) ==
    LET targetProvider == IF providerName = "null" THEN svc.defaultProvider
                          ELSE providerName
    IN  IF targetProvider = "null" THEN "NoProviderConfigured"
        ELSE IF ~ProvidersHas(svc, targetProvider) THEN "ProviderNotFound"
        ELSE "none"

\* as GetToken, but a provider asked for by name becomes the default
GetTokenAdoptsDefault(c, providerName) ==
    LET error == GetTokenError(service, providerName)
    IN  /\ service.constructed
        /\ c = getMade + 1
        /\ get[c].pc = "none"
        /\ getMade' = c
        /\ get' = [get EXCEPT ![c] =
              [pc |-> IF error = "none" THEN "adapter" ELSE error,
               providerName |-> providerName,
               adapter |-> ResolveProvider(service, providerName)]]
        /\ service' = [service EXCEPT !.defaultProvider =
              IF providerName = "null" THEN @ ELSE providerName]
        /\ UNCHANGED <<available, asked>>

\* getToken(providerName): throws, or calls the adapter's getToken
GetToken(c, providerName) ==
    LET error == GetTokenError(service, providerName)
    IN  /\ service.constructed
        /\ c = getMade + 1
        /\ get[c].pc = "none"
        /\ getMade' = c
        /\ get' = [get EXCEPT ![c] =
              [pc |-> IF error = "none" THEN "adapter" ELSE error,
               providerName |-> providerName,
               adapter |-> ResolveProvider(service, providerName)]]
        /\ UNCHANGED <<service, available, asked>>

\* the adapter's getToken resolves
AdapterResolves(c) ==
    /\ get[c].pc = "adapter"
    /\ get' = [get EXCEPT ![c].pc = "returned"]
    /\ UNCHANGED <<service, getMade, available, asked>>

\* the adapter's getToken rejects
AdapterRejects(c) ==
    /\ get[c].pc = "adapter"
    /\ get' = [get EXCEPT ![c].pc = "rejected"]
    /\ UNCHANGED <<service, getMade, available, asked>>

GetAvailableProviders ==
    /\ service.constructed
    /\ Len(available) < MaxListings
    /\ available' = Append(available, service.providers)
    /\ UNCHANGED <<service, get, getMade, asked>>

MaxAsked == 2               \* hasProvider and getProviderInfo calls in one run

\* BaseTokenProvider.isConfigured(): validateConfig() does not throw
IsConfigured(config) == ValidateConfig(config)

\* what getProviderInfo() returns; providers in the registry's order
ProviderInfo(svc) ==
    [providers |->
        [i \in 1..Len(svc.providers) |->
            [name |-> svc.providers[i],
             configured |-> IsConfigured(svc.configs[i]),
             isDefault |-> svc.providers[i] = svc.defaultProvider]],
     defaultProvider |-> svc.defaultProvider,
     totalProviders |-> Len(svc.providers)]

\* hasProvider(providerName)
HasProvider(providerName) ==
    /\ service.constructed
    /\ Len(asked) < MaxAsked
    /\ asked' = Append(asked, [call |-> "hasProvider", name |-> providerName,
                               has |-> ProvidersHas(service, providerName),
                               info |-> ProviderInfo(NoProviders)])
    /\ UNCHANGED <<service, get, getMade, available>>

\* getProviderInfo()
GetProviderInfo ==
    /\ service.constructed
    /\ Len(asked) < MaxAsked
    /\ asked' = Append(asked, [call |-> "getProviderInfo", name |-> "null",
                               has |-> FALSE, info |-> ProviderInfo(service)])
    /\ UNCHANGED <<service, get, getMade, available>>

(***************************************************************************)
(* One translation request.  Texts are sequences of characters.            *)
(***************************************************************************)
MaxReads == 2               \* chunks the upstream stream delivers
MaxMatches == 1             \* "text" fields in one chunk of the Gemini stream

Adapters == {"gemini", "google", "openai"}
Parts == {<<"a">>, <<"b", "c">>}    \* the texts an upstream update may carry
Statuses == {200, 400, 429, 499, 500}       \* response.status
retries == 5                \* fetchWithRetry(url, options, retries = 5, ...)
initialDelay == 1000        \* fetchWithRetry(..., delay = 1000)

\* "Sorry, an error occurred during translation.", cut to three characters
errorMessage == <<"S", "o", "r">>
\* the string "Error"
ErrorText == <<"E", "r", "r", "o", "r">>
\* what stream.finalResponse() resolves to: an object, not a text
FinalResponse == <<"{", "}">>

NoCall == [pc |-> "none", i |-> 0, delay |-> 0, fullText |-> <<>>,
           result |-> <<>>, failed |-> FALSE, reads |-> 0, done |-> FALSE]
NoStream == [pc |-> "idle", previousText |-> <<>>, chunkIndex |-> 0,
             sse |-> <<>>]

StreamIdle ==
    /\ adapter = "gemini"
    /\ llm = NoCall
    /\ attempts = 0
    /\ responses = <<>>
    /\ waited = <<>>
    /\ events = <<>>
    /\ stream = NoStream

\* String.prototype.slice(n), 0 <= n
Slice(text, n) == IF n >= Len(text) THEN <<>> ELSE SubSeq(text, n + 1, Len(text))

\* sequences over S of length 0..n
SeqsUpTo(S, n) == UNION {[1..k -> S] : k \in 0..n}

(***************************************************************************)
(* The handler's onChunk callback (signIn.js 157-177, translateStream.js   *)
(* 80-95): one SSE message per call with new content or isDone.            *)
(***************************************************************************)
ChunkMessage(newContent, currentText, index, isDone) ==
    [type |-> "chunk", chunk |-> newContent, fullText |-> currentText,
     index |-> index, isDone |-> isDone]

\* as OnChunk, but a call that sends nothing takes an index too
OnChunkCountsEvery(h, currentText, isDone) ==
    LET newContent == Slice(currentText, Len(h.previousText))
    IN  IF Len(newContent) > 0 \/ isDone
        THEN [h EXCEPT !.sse = Append(@, ChunkMessage(newContent, currentText,
                                                      h.chunkIndex, isDone)),
                       !.chunkIndex = @ + 1,
                       !.previousText = currentText]
        ELSE [h EXCEPT !.chunkIndex = @ + 1]

OnChunk(h, currentText, isDone) ==
    LET newContent == Slice(currentText, Len(h.previousText))
    IN  IF Len(newContent) > 0 \/ isDone
        THEN [h EXCEPT !.sse = Append(@, ChunkMessage(newContent, currentText,
                                                      h.chunkIndex, isDone)),
                       !.chunkIndex = @ + 1,
                       !.previousText = currentText]
        ELSE h

\* the callback run on each call of a sequence, in order
RECURSIVE OnChunks(_, _)
OnChunks(h, calls) ==
    IF calls = <<>> THEN h
    ELSE OnChunks(OnChunk(h, Head(calls).text, Head(calls).isDone), Tail(calls))

OnChunkCall(text, isDone) == [text |-> text, isDone |-> isDone]

(***************************************************************************)
(* The handler calls translateStream on its service.                       *)
(***************************************************************************)
TranslateStream ==
    /\ llm.pc = "none"
    /\ stream.pc = "idle"
    /\ stream' = [stream EXCEPT !.pc = "streaming"]
    /\ IF adapter = "gemini"
         THEN /\ llm' = [llm EXCEPT !.pc = "fetch", !.i = 0,
                                    !.delay = initialDelay]
              /\ attempts' = attempts + 1
         ELSE /\ llm' = [llm EXCEPT !.pc = "opening"]
              /\ UNCHANGED attempts
    /\ UNCHANGED <<adapter, responses, waited, events>>

(***************************************************************************)
(* functions/services/llm/geminiService.js                                 *)
(***************************************************************************)
Ok(status) == status >= 200 /\ status <= 299

\* as Transient, but every status from 400 on is retried
TransientFrom400(status) == status >= 400

Transient(status) == status = 429 \/ status >= 500

\* as NextDelay, but the delay grows by the first delay
NextDelayLinear(delay) == delay + initialDelay

NextDelay(delay) == delay * 2

\* as RetriesLeft, but one more turn of the loop
RetriesLeftInclusive(i) == i <= retries

RetriesLeft(i) == i < retries

\* the catch of translateStream: onChunk(message), fullText = "Error"
GeminiCatch ==
    /\ events' = Append(events, OnChunkCall(errorMessage, FALSE))
    /\ stream' = OnChunk(stream, errorMessage, FALSE)
    /\ llm' = [llm EXCEPT !.pc = "returned", !.fullText = ErrorText,
                          !.result = ErrorText, !.failed = TRUE]

\* await fetch(url, options) resolves with a response
FetchResponds(status) ==
    /\ adapter = "gemini"
    /\ llm.pc = "fetch"
    /\ responses' = Append(responses, status)
    /\ IF Ok(status)
         THEN /\ llm' = [llm EXCEPT !.pc = "read"]
              /\ UNCHANGED <<waited, events, stream>>
         ELSE IF Transient(status)
         THEN /\ llm' = [llm EXCEPT !.pc = "delay"]
              /\ waited' = Append(waited, llm.delay)
              /\ UNCHANGED <<events, stream>>
         ELSE /\ GeminiCatch
              /\ UNCHANGED waited
    /\ UNCHANGED <<adapter, attempts>>

\* await fetch(url, options) rejects
FetchThrows ==
    /\ adapter = "gemini"
    /\ llm.pc = "fetch"
    /\ GeminiCatch
    /\ UNCHANGED <<adapter, attempts, responses, waited>>

\* the setTimeout of the delay fires: delay *= 2, i++, and the loop test
TimerFires ==
    /\ adapter = "gemini"
    /\ llm.pc = "delay"
    /\ IF RetriesLeft(llm.i + 1)
         THEN /\ llm' = [llm EXCEPT !.pc = "fetch", !.i = @ + 1,
                                    !.delay = NextDelay(@)]
              /\ attempts' = attempts + 1
              /\ UNCHANGED <<events, stream>>
         ELSE /\ GeminiCatch
              /\ UNCHANGED attempts
    /\ UNCHANGED <<adapter, responses, waited>>

\* the texts onChunk is called with while the matches of one chunk are added
RECURSIVE Accumulated(_, _)
Accumulated(fullText, matches) ==
    IF matches = <<>> THEN <<>>
    ELSE <<OnChunkCall(fullText \o Head(matches), FALSE)>>
            \o Accumulated(fullText \o Head(matches), Tail(matches))

RECURSIVE Joined(_)
Joined(texts) == IF texts = <<>> THEN <<>> ELSE Head(texts) \o Joined(Tail(texts))

\* reader.read() resolves with a chunk holding these "text" matches
GeminiRead(matches) ==
    /\ adapter = "gemini"
    /\ llm.pc = "read"
    /\ llm.reads < MaxReads
    /\ llm' = [llm EXCEPT !.reads = @ + 1,
                          !.fullText = @ \o Joined(matches)]
    /\ events' = events \o Accumulated(llm.fullText, matches)
    /\ stream' = OnChunks(stream, Accumulated(llm.fullText, matches))
    /\ UNCHANGED <<adapter, attempts, responses, waited>>

\* reader.read() resolves with done
GeminiDone ==
    /\ adapter = "gemini"
    /\ llm.pc = "read"
    /\ llm' = [llm EXCEPT !.pc = "returned", !.result = llm.fullText]
    /\ UNCHANGED <<adapter, attempts, responses, waited, events, stream>>

\* reader.read() rejects, or JSON.parse throws on a match
GeminiReadThrows ==
    /\ adapter = "gemini"
    /\ llm.pc = "read"
    /\ GeminiCatch
    /\ UNCHANGED <<adapter, attempts, responses, waited>>

(***************************************************************************)
(* GoogleService.translateStream                                           *)
(***************************************************************************)
\* the catch: onChunk(errorMessage, true), return "Error"
GoogleCatch ==
    /\ events' = Append(events, OnChunkCall(errorMessage, TRUE))
    /\ stream' = OnChunk(stream, errorMessage, TRUE)
    /\ llm' = [llm EXCEPT !.pc = "returned", !.result = ErrorText,
                          !.failed = TRUE]

\* await generateContentStream(...) resolves
GoogleOpens ==
    /\ adapter = "google"
    /\ llm.pc = "opening"
    /\ llm' = [llm EXCEPT !.pc = "stream"]
    /\ UNCHANGED <<adapter, attempts, responses, waited, events, stream>>

\* the next chunk of the response: chunk.text is text, <<>> when it is empty
GoogleChunk(text) ==
    /\ adapter = "google"
    /\ llm.pc = "stream"
    /\ llm.reads < MaxReads
    /\ IF text # <<>>
         THEN /\ llm' = [llm EXCEPT !.reads = @ + 1, !.fullText = @ \o text]
              /\ events' = Append(events, OnChunkCall(llm.fullText \o text, FALSE))
              /\ stream' = OnChunk(stream, llm.fullText \o text, FALSE)
         ELSE /\ llm' = [llm EXCEPT !.reads = @ + 1]
              /\ UNCHANGED <<events, stream>>
    /\ UNCHANGED <<adapter, attempts, responses, waited>>

\* the response ends: onChunk(fullText, true), return fullText
GoogleEnds ==
    /\ adapter = "google"
    /\ llm.pc = "stream"
    /\ events' = Append(events, OnChunkCall(llm.fullText, TRUE))
    /\ stream' = OnChunk(stream, llm.fullText, TRUE)
    /\ llm' = [llm EXCEPT !.pc = "returned", !.result = llm.fullText]
    /\ UNCHANGED <<adapter, attempts, responses, waited>>

\* generateContentStream rejects, or the iteration of the response throws
GoogleThrows ==
    /\ adapter = "google"
    /\ llm.pc \in {"opening", "stream"}
    /\ GoogleCatch
    /\ UNCHANGED <<adapter, attempts, responses, waited>>

(***************************************************************************)
(* OpenAIService.translateStream                                           *)
(***************************************************************************)
\* await responses.stream(...) resolves: the listeners are set and
\* stream.finalResponse() is awaited
OpenAIOpens ==
    /\ adapter = "openai"
    /\ llm.pc = "opening"
    /\ llm' = [llm EXCEPT !.pc = "open"]
    /\ UNCHANGED <<adapter, attempts, responses, waited, events, stream>>

\* "response.output_text.delta": onChunk(chunk) for a chunk that is not empty
OpenAIDelta(delta) ==
    /\ adapter = "openai"
    /\ llm.pc = "open"
    /\ ~llm.done
    /\ llm.reads < MaxReads
    /\ IF delta # <<>>
         THEN /\ llm' = [llm EXCEPT !.reads = @ + 1, !.fullText = @ \o delta]
              /\ events' = Append(events, OnChunkCall(delta, FALSE))
              /\ stream' = OnChunk(stream, delta, FALSE)
         ELSE /\ llm' = [llm EXCEPT !.reads = @ + 1]
              /\ UNCHANGED <<events, stream>>
    /\ UNCHANGED <<adapter, attempts, responses, waited>>

\* "response.output_text.done": onChunk(fullTranslation, true)
OpenAIDone ==
    /\ adapter = "openai"
    /\ llm.pc = "open"
    /\ ~llm.done
    /\ llm' = [llm EXCEPT !.done = TRUE]
    /\ events' = Append(events, OnChunkCall(llm.fullText, TRUE))
    /\ stream' = OnChunk(stream, llm.fullText, TRUE)
    /\ UNCHANGED <<adapter, attempts, responses, waited>>

\* stream.finalResponse() resolves: the response object is returned
OpenAIResolves ==
    /\ adapter = "openai"
    /\ llm.pc = "open"
    /\ llm' = [llm EXCEPT !.pc = "returned", !.result = FinalResponse]
    /\ UNCHANGED <<adapter, attempts, responses, waited, events, stream>>

\* responses.stream(...) or stream.finalResponse() rejects
OpenAIRejects ==
    /\ adapter = "openai"
    /\ llm.pc \in {"opening", "open"}
    /\ llm' = [llm EXCEPT !.pc = "rejected", !.failed = TRUE]
    /\ UNCHANGED <<adapter, attempts, responses, waited, events, stream>>

(***************************************************************************)
(* The handler after await translateStream(...).                           *)
(***************************************************************************)
Message(type) == [type |-> type, chunk |-> <<>>, fullText |-> <<>>,
                  index |-> 0, isDone |-> FALSE]

\* {complete: true, final: true}, then [DONE]
HandlerCompletes ==
    /\ llm.pc = "returned"
    /\ stream.pc = "streaming"
    /\ stream' = [stream EXCEPT !.pc = "closed",
                                !.sse = @ \o <<Message("complete"),
                                               Message("[DONE]")>>]
    /\ UNCHANGED <<adapter, llm, attempts, responses, waited, events>>

\* the catch: {error: 'Translation failed', message}
HandlerCatches ==
    /\ llm.pc = "rejected"
    /\ stream.pc = "streaming"
    /\ stream' = [stream EXCEPT !.pc = "closed",
                                !.sse = Append(@, Message("error"))]
    /\ UNCHANGED <<adapter, llm, attempts, responses, waited, events>>

(***************************************************************************)
(* getLLMService(sentence, googleApiKey, openAIKey): the service a text   *)
(* is translated with.  A text is a sequence of characters.               *)
(***************************************************************************)
MaxChars == 7       \* characters of a text
MaxRouteCalls == 2  \* getLLMService calls in one run

\* what \s matches, which is also what trim() removes
WhiteSpace == {" ", "\n"}
Chars == {"a"} \cup WhiteSpace

\* String.prototype.trim
RECURSIVE TrimStart(_)
TrimStart(text) ==
    IF text # <<>> /\ Head(text) \in WhiteSpace THEN TrimStart(Tail(text))
    ELSE text

RECURSIVE TrimEnd(_)
TrimEnd(text) ==
    IF text # <<>> /\ text[Len(text)] \in WhiteSpace
    THEN TrimEnd(SubSeq(text, 1, Len(text) - 1))
    ELSE text

Trim(text) == TrimEnd(TrimStart(text))

\* String.prototype.split(/\s+/): the pieces between the runs of whitespace,
\* an empty piece before a leading run and after a trailing one, and the one
\* empty piece of the empty text.  piece is the piece being read.
RECURSIVE SplitFrom(_, _)
SplitFrom(text, piece) ==
    IF text = <<>> THEN <<piece>>
    ELSE IF Head(text) \in WhiteSpace
         THEN <<piece>> \o SplitFrom(TrimStart(text), <<>>)
         ELSE SplitFrom(Tail(text), Append(piece, Head(text)))

Split(text) == SplitFrom(text, <<>>)

\* as GetLLMService, but counting the pieces of the text as it came
GetLLMServiceUntrimmed(text) ==
    LET wordCount == Len(Split(text))
    IN  IF wordCount > 3 THEN "GoogleService"
        ELSE IF wordCount <= 3 THEN "OpenAIService"
        ELSE "AnthropicService"

GetLLMService(text) ==
    LET wordCount == Len(Split(Trim(text)))
    IN  IF wordCount > 3 THEN "GoogleService"
        ELSE IF wordCount <= 3 THEN "OpenAIService"
        ELSE "AnthropicService"

RouteIdle == sentence = <<>> /\ routed = <<>>

\* one call of getLLMService with the text
Route ==
    /\ Len(routed) < MaxRouteCalls
    /\ routed' = Append(routed, GetLLMService(sentence))
    /\ UNCHANGED sentence

(***************************************************************************)
(* The page (unnamed/part_004): translateDetectedText calls                *)
(* translateStreamText, which reads the whole response, then replays the   *)
(* chunks to its onChunk callback one per 50 ms timer; the callback types  *)
(* the text into the streaming message one character per 30 ms timer.      *)
(* What reader.read() gives is a run of lines, of which the first and the  *)
(* last may be pieces of a line that the read's boundary cut in two.       *)
(***************************************************************************)
MaxLines == 3       \* lines in one response body

\* part: "whole", or the "head" or "tail" of a line cut by a read's boundary
Line(type, chunk) == [type |-> type, chunk |-> chunk, part |-> "whole"]

\* the data lines a body is made of: {chunk, ...} with and without text,
\* {complete: true, final: true}, [DONE], {error, message} and a data line
\* that is not JSON
Lines == {Line("chunk", <<"a", "b">>), Line("chunk", <<>>),
          Line("complete", <<>>), Line("[DONE]", <<>>), Line("error", <<>>),
          Line("malformed", <<>>)}

\* no line is waiting for its tail
NoCut == Line("none", <<>>)

\* the texts translateDetectedText is called with
Texts == {<<>>, <<" ">>, <<"a">>}

NoClient == [pc |-> "idle", allChunks |-> <<>>, fullTranslation |-> <<>>,
             i |-> 0, accumulatedText |-> <<>>, result |-> <<>>,
             cut |-> NoCut]

NoPage == [streamingMessage |-> FALSE, textContent |-> <<>>, final |-> FALSE,
           streamingAnimation |-> FALSE, additionalText |-> <<>>,
           charIndex |-> 0]

ClientIdle ==
    /\ client = NoClient
    /\ received = <<>>
    /\ delivered = <<>>
    /\ page = NoPage
    /\ detect = "none"
    /\ spoken = <<>>

StartsWith(text, prefix) ==
    Len(prefix) <= Len(text) /\ SubSeq(text, 1, Len(prefix)) = prefix

\* animateTextStreaming(textElement, newText): the running interval is
\* cleared; a text that is no longer, or does not continue what is shown,
\* is set at once, and otherwise an interval is started for the rest of it
AnimateTextStreaming(p, newText) ==
    LET currentText == p.textContent
    IN  IF Len(newText) <= Len(currentText) \/ ~StartsWith(newText, currentText)
        THEN [p EXCEPT !.textContent = newText, !.streamingAnimation = FALSE]
        ELSE [p EXCEPT !.streamingAnimation = TRUE,
                       !.additionalText = Slice(newText, Len(currentText)),
                       !.charIndex = 0]

\* the callback translateDetectedText passes to translateStreamText
StreamingCallback(p, currentText, isDone) ==
    LET animated == AnimateTextStreaming([p EXCEPT !.streamingMessage = TRUE],
                                         currentText)
    IN  [animated EXCEPT !.final = @ \/ isDone]

\* as CollectLines, but a data line that does not parse ends the loop
RECURSIVE CollectLinesAborting(_, _)
CollectLinesAborting(c, lines) ==
    IF lines = <<>> THEN c
    ELSE LET line == Head(lines)
         IN  IF line.part # "whole" THEN CollectLinesAborting(c, Tail(lines))
             ELSE IF line.type = "[DONE]" THEN CollectLinesAborting(c, Tail(lines))
             ELSE IF line.type = "chunk"
             THEN CollectLinesAborting(
                      [c EXCEPT !.allChunks = Append(@, line.chunk),
                                !.fullTranslation = @ \o line.chunk],
                      Tail(lines))
             ELSE IF line.type \in {"complete", "malformed"} THEN c
             ELSE CollectLinesAborting(c, Tail(lines))

\* the for loop over the lines of one read: a chunk is kept, [DONE] is
\* skipped, complete breaks out of the loop, and the error thrown for an
\* error payload or by JSON.parse is caught by the catch around the parse,
\* which logs it.  Of a line cut in two, the head does not parse (or is
\* not a data line yet) and the tail is not a data line: both are skipped.
RECURSIVE CollectLines(_, _)
CollectLines(c, lines) ==
    IF lines = <<>> THEN c
    ELSE LET line == Head(lines)
         IN  IF line.part # "whole" THEN CollectLines(c, Tail(lines))
             ELSE IF line.type = "[DONE]" THEN CollectLines(c, Tail(lines))
             ELSE IF line.type = "chunk"
             THEN CollectLines([c EXCEPT !.allChunks = Append(@, line.chunk),
                                         !.fullTranslation = @ \o line.chunk],
                               Tail(lines))
             ELSE IF line.type = "complete" THEN c
             ELSE CollectLines(c, Tail(lines))

\* translateStreamText throws, and translateDetectedText catches
ClientThrows ==
    /\ client' = [client EXCEPT !.pc = "threw"]
    /\ detect' = "failed"

\* translateStreamText returns fullTranslation, and translateDetectedText
\* goes on to await initializeTextToSpeech()
ClientReturns(c) ==
    /\ client' = [c EXCEPT !.pc = "returned", !.result = c.fullTranslation]
    /\ detect' = "tts"

\* translateDetectedText(text, detectedLanguage) up to the await of fetch
TranslateDetectedText(text) ==
    /\ detect = "none"
    /\ IF Trim(text) = <<>>
         THEN ClientThrows
         ELSE /\ client' = [client EXCEPT !.pc = "fetch"]
              /\ detect' = "translating"
    /\ UNCHANGED <<received, delivered, page, spoken>>

\* await fetch(...) resolves
ClientFetchResponds(ok) ==
    /\ client.pc = "fetch"
    /\ IF ok
         THEN client' = [client EXCEPT !.pc = "reading"] /\ UNCHANGED detect
         ELSE ClientThrows
    /\ UNCHANGED <<received, delivered, page, spoken>>

\* await fetch(...) rejects
ClientFetchThrows ==
    /\ client.pc = "fetch"
    /\ ClientThrows
    /\ UNCHANGED <<received, delivered, page, spoken>>

RECURSIVE Flat(_)
Flat(reads) == IF reads = <<>> THEN <<>> ELSE Head(reads) \o Flat(Tail(reads))

\* the lines of the body that have begun to arrive
Begun(reads) ==
    Len(SelectSeq(Flat(reads), LAMBDA line : line.part # "tail"))

\* await reader.read() resolves with a value: the tail of the line the
\* read before cut, whole lines, and the head of a line this read cuts
ReaderRead(lines, cut) ==
    LET tail == IF client.cut = NoCut THEN <<>>
                ELSE <<[client.cut EXCEPT !.part = "tail"]>>
        head == IF cut = NoCut THEN <<>> ELSE <<[cut EXCEPT !.part = "head"]>>
        value == tail \o lines \o head
    IN  /\ client.pc = "reading"
        /\ value # <<>>
        /\ Begun(received) + Len(lines) + Len(head) <= MaxLines
        /\ received' = Append(received, value)
        /\ client' = [CollectLines(client, value) EXCEPT !.cut = cut]
        /\ UNCHANGED <<delivered, page, detect, spoken>>

\* await reader.read() resolves with done: the replay starts with the first
\* chunk and its timer, or there is nothing to replay
ReaderDone ==
    /\ client.pc = "reading"
    /\ client.cut = NoCut
    /\ IF Len(client.allChunks) > 0
         THEN /\ client' = [client EXCEPT !.pc = "replay", !.i = 0,
                                 !.accumulatedText = client.allChunks[1]]
              /\ UNCHANGED detect
         ELSE ClientReturns(client)
    /\ UNCHANGED <<received, delivered, page, spoken>>

\* await reader.read() rejects
ReaderThrows ==
    /\ client.pc = "reading"
    /\ ClientThrows
    /\ UNCHANGED <<received, delivered, page, spoken>>

\* the 50 ms timer of the replay fires: onChunk with the text so far; after
\* the last chunk onChunk once more with fullTranslation, and the return
ReplayTimer ==
    /\ client.pc = "replay"
    /\ LET n == Len(client.allChunks)
           last == client.i = n - 1
           call == OnChunkCall(client.accumulatedText, last)
           shown == StreamingCallback(page, client.accumulatedText, last)
       IN  IF last
           THEN /\ delivered' = delivered \o
                        <<call, OnChunkCall(client.fullTranslation, TRUE)>>
                /\ page' = StreamingCallback(shown, client.fullTranslation, TRUE)
                /\ ClientReturns([client EXCEPT !.i = @ + 1])
           ELSE /\ delivered' = Append(delivered, call)
                /\ page' = shown
                /\ client' = [client EXCEPT
                       !.i = @ + 1,
                       !.accumulatedText = @ \o client.allChunks[client.i + 2]]
                /\ UNCHANGED detect
    /\ UNCHANGED <<received, spoken>>

\* the 30 ms interval of animateTextStreaming fires
AnimationTick ==
    /\ page.streamingAnimation
    /\ IF page.charIndex < Len(page.additionalText)
         THEN page' = [page EXCEPT
                  !.textContent = Append(@, page.additionalText[page.charIndex + 1]),
                  !.charIndex = @ + 1]
         ELSE page' = [page EXCEPT !.streamingAnimation = FALSE]
    /\ UNCHANGED <<client, received, delivered, detect, spoken>>

\* await initializeTextToSpeech() resolves
TtsInitialized ==
    /\ detect = "tts"
    /\ detect' = "voices"
    /\ UNCHANGED <<client, received, delivered, page, spoken>>

\* await getRecommendedVoices(targetLanguage, 1) resolves: speakQueued with
\* the text of the streaming message, or '' when there is none
VoicesResolve ==
    /\ detect = "voices"
    /\ spoken' = Append(spoken, IF page.streamingMessage
                                  THEN page.textContent ELSE <<>>)
    /\ detect' = "done"
    /\ UNCHANGED <<client, received, delivered, page>>

\* either await rejects: the error is logged
TtsThrows ==
    /\ detect \in {"tts", "voices"}
    /\ detect' = "done"
    /\ UNCHANGED <<client, received, delivered, page, spoken>>

(***************************************************************************)
(* The voice list of TextToSpeechService: getVoices, filterVoices and      *)
(* getRecommendedVoices over this.voicesCache.  The service is initialized *)
(* and has a synthesizer.  A locale is a sequence of characters.           *)
(***************************************************************************)
MaxVoiceCalls == 2          \* getVoices and getRecommendedVoices calls in one run
MaxVoices == 2              \* voices in the list getVoicesAsync gives
MaxVoiceClock == 900000     \* Date.now() runs up to MaxVoiceClock
VoiceClockStep == 300000    \* and advances in steps of VoiceClockStep

voicesCacheTimeout == 600000    \* this.cacheTimeout = 10 * 60 * 1000

\* the voices the service may list
AllVoices ==
    {[locale |-> <<"e", "n", "-", "U", "S">>, voiceType |-> "Standard", name |-> "B"],
     [locale |-> <<"e", "n", "-", "U", "S">>, voiceType |-> "Neural", name |-> "C"],
     [locale |-> <<"s", "v", "-", "S", "E">>, voiceType |-> "Neural", name |-> "A"]}

\* the language filters of the calls; <<>> is no filter
LanguageFilters == {<<>>, <<"e", "n", "-", "u", "s">>, <<"E", "N">>}

\* String.prototype.toLowerCase, on the characters that occur
Lower(ch) ==
    CASE ch = "E" -> "e"
      [] ch = "N" -> "n"
      [] ch = "S" -> "s"
      [] ch = "U" -> "u"
      [] ch = "V" -> "v"
      [] OTHER -> ch

ToLowerCase(text) == [i \in 1..Len(text) |-> Lower(text[i])]

Includes(text, ch) == \E i \in 1..Len(text) : text[i] = ch

\* filterVoices(voices, languageFilter)
RECURSIVE FilterVoices(_, _)
FilterVoices(voices, languageFilter) ==
    IF languageFilter = <<>> THEN voices
    ELSE IF voices = <<>> THEN <<>>
    ELSE LET voiceLocale == Head(voices).locale
             keep == IF Includes(languageFilter, "-")
                     THEN ToLowerCase(voiceLocale) = ToLowerCase(languageFilter)
                     ELSE StartsWith(ToLowerCase(voiceLocale),
                                     Append(ToLowerCase(languageFilter), "-"))
             rest == FilterVoices(Tail(voices), languageFilter)
         IN  IF keep THEN <<Head(voices)>> \o rest ELSE rest

\* the compare function of getRecommendedVoices: a before b
NameRank(name) == CASE name = "A" -> 1 [] name = "B" -> 2 [] OTHER -> 3

IsNeural(voice) == voice.voiceType = "Neural"

Before(a, b) ==
    \/ IsNeural(a) /\ ~IsNeural(b)
    \/ IsNeural(a) = IsNeural(b) /\ NameRank(a.name) < NameRank(b.name)

\* Array.prototype.sort with that function: stable
RECURSIVE InsertVoice(_, _)
InsertVoice(sorted, voice) ==
    IF sorted = <<>> THEN <<voice>>
    ELSE IF Before(voice, Head(sorted)) THEN <<voice>> \o sorted
    ELSE <<Head(sorted)>> \o InsertVoice(Tail(sorted), voice)

RECURSIVE SortVoices(_)
SortVoices(voices) ==
    IF voices = <<>> THEN <<>>
    ELSE InsertVoice(SortVoices(SubSeq(voices, 1, Len(voices) - 1)),
                     voices[Len(voices)])

\* slice(0, maxCount)
Take(voices, maxCount) ==
    IF maxCount >= Len(voices) THEN voices ELSE SubSeq(voices, 1, maxCount)

NoVoicesCache == [set |-> FALSE, voices |-> <<>>]

VoiceIdle ==
    /\ voiceNow = VoiceClockStep
    /\ voicesCache = NoVoicesCache
    /\ voicesCacheTimestamp = 0
    /\ upstream = <<>>
    /\ voiceCalls = <<>>

VoiceTick ==
    /\ voiceNow + VoiceClockStep <= MaxVoiceClock
    /\ voiceNow' = voiceNow + VoiceClockStep
    /\ UNCHANGED <<voicesCache, voicesCacheTimestamp, upstream, voiceCalls>>

\* the test of getVoices for using the cache
UseCache(forceRefresh, now) ==
    /\ ~forceRefresh
    /\ voicesCache.set
    /\ voicesCacheTimestamp # 0
    /\ now - voicesCacheTimestamp < voicesCacheTimeout

\* getVoices returns voices to a getRecommendedVoices call, which sorts the
\* array it was given in place and returns the first maxCount of it; same
\* tells that the array is this.voicesCache itself
Recommended(kind, voices, maxCount) ==
    IF kind = "getRecommendedVoices" THEN Take(SortVoices(voices), maxCount)
    ELSE <<>>

SortedInPlace(kind, voices, same, cached) ==
    IF kind = "getRecommendedVoices" /\ same
    THEN [cached EXCEPT !.voices = SortVoices(voices)]
    ELSE cached

\* getVoices(languageFilter, forceRefresh), called directly or by
\* getRecommendedVoices(language, maxCount): served from the cache, or up to
\* the await of getVoicesAsync
GetVoices(kind, languageFilter, forceRefresh, maxCount) ==
    LET call == [kind |-> kind, languageFilter |-> languageFilter,
                 forceRefresh |-> forceRefresh, maxCount |-> maxCount,
                 now |-> voiceNow, pc |-> "fetching", hit |-> FALSE,
                 voices |-> <<>>, recommended |-> <<>>]
        found == FilterVoices(voicesCache.voices, languageFilter)
    IN  /\ Len(voiceCalls) < MaxVoiceCalls
        /\ kind = "getRecommendedVoices" => ~forceRefresh
        /\ kind = "getVoices" => maxCount = 1
        /\ IF UseCache(forceRefresh, voiceNow)
             THEN /\ voiceCalls' = Append(voiceCalls,
                        [call EXCEPT !.pc = "returned", !.hit = TRUE,
                                     !.voices = found,
                                     !.recommended =
                                         Recommended(kind, found, maxCount)])
                  /\ voicesCache' = SortedInPlace(kind, found,
                                                  languageFilter = <<>>,
                                                  voicesCache)
             ELSE /\ voiceCalls' = Append(voiceCalls, call)
                  /\ UNCHANGED voicesCache
        /\ UNCHANGED <<voiceNow, voicesCacheTimestamp, upstream>>

\* await getVoicesAsync() resolves with the list: it is cached with the time
\* the call was made at, and returned as it is
VoicesRetrieved(c) ==
    /\ c \in 1..Len(voiceCalls)
    /\ voiceCalls[c].pc = "fetching"
    /\ voicesCacheTimestamp' = voiceCalls[c].now
    /\ voicesCache' = SortedInPlace(voiceCalls[c].kind, upstream, TRUE,
                                    [set |-> TRUE, voices |-> upstream])
    /\ voiceCalls' = [voiceCalls EXCEPT
           ![c].pc = "returned",
           ![c].voices = upstream,
           ![c].recommended = Recommended(voiceCalls[c].kind, upstream,
                                          voiceCalls[c].maxCount)]
    /\ UNCHANGED <<voiceNow, upstream>>

\* await getVoicesAsync() rejects, or its result is not a list of voices
VoicesFail(c) ==
    /\ c \in 1..Len(voiceCalls)
    /\ voiceCalls[c].pc = "fetching"
    /\ voiceCalls' = [voiceCalls EXCEPT ![c].pc = "threw"]
    /\ UNCHANGED <<voiceNow, voicesCache, voicesCacheTimestamp, upstream>>

\* any call's text may come out as audio of any duration
Init ==
    /\ TtsConstructed /\ audio = [c \in Calls |-> Durations]
    /\ TokIdle /\ BrokerIdle /\ StreamIdle /\ RouteIdle /\ ClientIdle /\ VoiceIdle

Next ==
    \/ Tick /\ UNCHANGED exceptTts
    \/ StartQueueObserver /\ UNCHANGED exceptTts
    \/ StopQueueObserver /\ UNCHANGED exceptTts
    \/ ObserverTick /\ UNCHANGED exceptTts
    \/ SpeakQueuedEmpty /\ UNCHANGED exceptTts
    \/ \E c \in Calls : SpeakQueued(c) /\ UNCHANGED exceptTts
    \/ \E c \in Calls : Resumed(c) /\ UNCHANGED exceptTts
    \/ \E c \in Calls : SynthesizeDone(c) /\ UNCHANGED exceptTts
    \/ \E c \in Calls : SynthesizeFail(c) /\ UNCHANGED exceptTts
    \/ \E c \in Calls : \E d \in audio[c] : DecodeDone(c, d) /\ UNCHANGED exceptTts
    \/ \E c \in Calls : DecodeFail(c) /\ UNCHANGED exceptTts
    \/ Stop /\ UNCHANGED exceptTts
    \/ StopResume /\ UNCHANGED exceptTts

Spec == Init /\ [][Next]_vars

(***************************************************************************)
(* Properties of the audio queue.                                          *)
(***************************************************************************)
Segs == 1..Len(sources)

EndOf(i) == sources[i].start + sources[i].duration

\* the source started for call c
SegOf(c) == CHOOSE i \in Segs : sources[i].call = c

\* no stop() since source i was started
Current(i) == sources[i].epoch = stops

\* C1: with no stop() between them, a segment scheduled after another starts
\* no earlier than the other's start plus its duration plus the 0.25 s guard.
NoOverlapBetweenStops ==
    \A i, j \in Segs :
        (i < j /\ sources[i].epoch = sources[j].epoch)
            => sources[j].start >= EndOf(i) + 250

ThreeChained ==
    /\ Len(sources) = 3
    /\ \A i \in Segs : sources[i].epoch = 0
    /\ sources[2].start > EndOf(1) + 250
    /\ sources[3].start = EndOf(2) + 250

\* C2: in every reachable state, stop() calls included, no segment starts
\* before the scheduled end of a segment started earlier.
NoOverlapEver ==
    \A i, j \in Segs : i < j => sources[j].start >= EndOf(i)

\* C3: every enqueue reads the watermark after all earlier enqueues' writes:
\* between stops, what a later enqueue read is at least the end (plus guard)
\* every earlier enqueue wrote, no two enqueues read the same value, and the
\* watermark is the one the latest enqueue wrote.
WatermarkSerialized ==
    /\ \A i, j \in Segs :
          (i < j /\ sources[i].epoch = sources[j].epoch)
              => /\ sources[j].read >= EndOf(i) + 250
                 /\ sources[j].read # sources[i].read
    /\ (sources # <<>> /\ Current(Len(sources)))
          => lastQueuedEndTime = EndOf(Len(sources)) + 250

ConcurrentEnqueuesChained ==
    /\ Len(sources) = 3
    /\ backToBack
    /\ stops = 0
    /\ sources[1].call = 3
    /\ sources[2].read = EndOf(1) + 250
    /\ sources[3].read = EndOf(2) + 250

\* C4: a speakQueued call whose synthesis or decoding fails ends rejected,
\* starts no source and leaves lastQueuedEndTime as it was.
FailedCallLeavesQueue ==
    /\ [](\A i \in Segs : speak[sources[i].call] = "scheduled")
    /\ [][\A c \in Calls :
             (speak[c] \in {"synth", "decode"} /\ speak'[c] = "rejected")
                => /\ sources' = sources
                   /\ lastQueuedEndTime' = lastQueuedEndTime]_vars

ScheduledAfterFailure ==
    /\ Len(sources) = 2
    /\ speak[2] = "rejected"
    /\ sources[1].call = 1
    /\ sources[2].call = 3
    /\ sources[2].start = EndOf(1) + 250

ObserverOnlyObserves ==
    [][(StartQueueObserver \/ StopQueueObserver \/ ObserverTick)
          => (lastQueuedEndTime' = lastQueuedEndTime /\ sources' = sources)]_vars

ObservedWhileQueued ==
    /\ queueObserverInterval
    /\ maxQueuedDuration > InitialMaxQueuedDuration
    /\ Len(sources) = 3
    /\ currentTime > 0

(***************************************************************************)
(* The scenario of three calls whose audio lasts 2 s, 1 s and 3 s.         *)
(***************************************************************************)
ScenarioDuration(c) == IF c = 1 THEN 2000 ELSE IF c = 2 THEN 1000 ELSE 3000

ScenarioInit ==
    /\ TtsConstructed /\ audio = [c \in Calls |-> {ScenarioDuration(c)}]
    /\ TokIdle /\ BrokerIdle /\ StreamIdle /\ RouteIdle /\ ClientIdle /\ VoiceIdle

ScenarioSpec == ScenarioInit /\ [][Next]_vars

\* C5 as stated: whatever order the three syntheses complete in, the second
\* call's segment starts at least 2.25 s and the third call's at least 3.5 s
\* after the first call's segment.
ScenarioCalled ==
    /\ MaxCalls >= 3
    /\ stops = 0
    /\ backToBack
    /\ \A c \in 1..3 : speak[c] = "scheduled"

ScenarioStartsAnyOrder ==
    ScenarioCalled =>
        /\ sources[SegOf(2)].start >= sources[SegOf(1)].start + 2250
        /\ sources[SegOf(3)].start >= sources[SegOf(1)].start + 3500

\* C5, amended: the same, when the three segments are scheduled in the order
\* of the calls.
ScenarioStartsInCallOrder ==
    (ScenarioCalled /\ SegOf(1) < SegOf(2) /\ SegOf(2) < SegOf(3)) =>
        /\ sources[SegOf(2)].start >= sources[SegOf(1)].start + 2250
        /\ sources[SegOf(3)].start >= sources[SegOf(1)].start + 3500

ScenarioInCallOrder ==
    /\ ScenarioCalled
    /\ SegOf(1) < SegOf(2)
    /\ SegOf(2) < SegOf(3)
    /\ sources[SegOf(2)].start = sources[SegOf(1)].start + 2250
    /\ sources[SegOf(3)].start = sources[SegOf(1)].start + 3500

(***************************************************************************)
(* The token cache, its endpoint and the issuer.                           *)
(***************************************************************************)
CacheInit ==
    /\ TtsConstructed /\ audio = [c \in Calls |-> Durations]
    /\ TokConstructed /\ env \in Envs
    /\ BrokerIdle /\ StreamIdle /\ RouteIdle /\ ClientIdle /\ VoiceIdle

CacheNext ==
    \/ TokTick /\ UNCHANGED exceptTok
    \/ \E c \in TokCalls, provider \in Providers :
            GetAccessToken(c, provider) /\ UNCHANGED exceptTok
    \/ \E c \in TokCalls : FetchRejects(c) /\ UNCHANGED exceptTok
    \/ \E c \in TokCalls : Handler(c) /\ UNCHANGED exceptTok
    \/ \E c \in TokCalls : IssuerOk(c) /\ UNCHANGED exceptTok
    \/ \E c \in TokCalls : IssuerFails(c) /\ UNCHANGED exceptTok
    \/ \E c \in TokCalls : ReceiveOk(c) /\ UNCHANGED exceptTok
    \/ \E c \in TokCalls : ReceiveError(c) /\ UNCHANGED exceptTok

CacheSpec == CacheInit /\ [][CacheNext]_vars

(***************************************************************************)
(* Properties of the token cache.                                          *)
(***************************************************************************)
\* call c is made in this step
StartsCall(c) == token[c].pc = "none" /\ token'[c].pc # "none"

\* call c gets its 200 response in this step
Receives(c) == token[c].pc = "status200" /\ token'[c].pc = "returned"

InFlight(c) == token[c].pc \in {"fetching", "issuing", "status200", "status500"}

KeyOf(c) == CacheKey(token[c].provider)

\* C8: a call made while the key's entry is younger than 9 min fetches
\* nothing and returns the cached record; a call made once the entry's age
\* has reached 9 min (or with no entry) fetches, the stale entry is dropped,
\* and the fetched record replaces it, stamped with the time it arrived.
CacheTtl ==
    /\ [][\A c \in TokCalls : StartsCall(c) =>
            LET k == CacheKey(token'[c].provider)
            IN  IF CacheHas(cache, k)
                     /\ wallClock - CacheGet(cache, k).timestamp < 540000
                THEN /\ fetches' = fetches
                     /\ token'[c].pc = "returned"
                     /\ token'[c].result = CacheGet(cache, k).data
                     /\ cache' = cache
                ELSE /\ fetches' = fetches + 1
                     /\ token'[c].pc = "fetching"
                     /\ ~CacheHas(cache', k)]_vars
    /\ [][\A c \in TokCalls : Receives(c) =>
            /\ CacheHas(cache', KeyOf(c))
            /\ CacheGet(cache', KeyOf(c)).data = token[c].result
            /\ CacheGet(cache', KeyOf(c)).timestamp = wallClock]_vars

HitThenExpired ==
    /\ \A c \in 1..3 : token[c].provider = "azure-speech"
                          /\ token[c].pc = "returned"
    /\ token[1].fetched = 1
    /\ token[2].fetched = 0
    /\ token[2].result = token[1].result
    /\ token[3].fetched = 1
    /\ token[3].result # token[1].result
    /\ CacheGet(cache, "azure-speech").data = token[3].result
    /\ CacheGet(cache, "azure-speech").timestamp = 810000

\* C9: a call made while the key has no fresh entry fetches even when
\* another call's fetch for the same key is in flight; calls that fetched
\* hold different records; the record a call receives overwrites whatever
\* entry the key has; and the cache has at most one entry per key.
NoCoalescingLastWriteWins ==
    /\ [](\A c, d \in TokCalls :
            (c # d /\ token[c].pc = "returned" /\ token[d].pc = "returned"
                /\ token[c].fetched = 1 /\ token[d].fetched = 1)
              => token[c].result # token[d].result)
    /\ [](\A e1, e2 \in cache : e1.key = e2.key => e1 = e2)
    /\ [][\A c \in TokCalls :
            (/\ StartsCall(c)
             /\ \E d \in TokCalls :
                    InFlight(d) /\ KeyOf(d) = CacheKey(token'[c].provider)
             /\ ~CacheHas(cache, CacheKey(token'[c].provider)))
               => fetches' = fetches + 1 /\ token'[c].pc = "fetching"]_vars
    /\ [][\A c \in TokCalls : Receives(c) =>
            /\ token'[c].result = token[c].result
            /\ \A e \in cache' :
                  e.key = KeyOf(c) => e.data = token[c].result]_vars

TwoFetchesLastWriteKept ==
    /\ token[1].provider = "null"
    /\ token[2].provider = "null"
    /\ token[1].pc = "returned"
    /\ token[2].pc = "returned"
    /\ token[1].fetched = 1
    /\ token[2].fetched = 1
    /\ token[1].result.token > token[2].result.token
    /\ CacheHas(cache, "default")
    /\ CacheGet(cache, "default").data = token[2].result
    /\ fetches = 2

\* C10 as stated: every failed call has made exactly one issuer round trip.
FailureIsOneIssuerTrip ==
    \A c \in TokCalls : token[c].pc = "threw" => token[c].trips = 1

\* C10, amended: a failed call has fetched the token endpoint exactly once
\* and made at most one issuer round trip; the failure leaves the cache as
\* it was; every entry is the record of a call that fetched and returned;
\* and a call for a key whose earlier calls all failed fetches again.
FailureIsNotCached ==
    /\ [](\A c \in TokCalls :
            token[c].pc = "threw" => token[c].fetched = 1 /\ token[c].trips <= 1)
    /\ [](\A e \in cache : \E c \in TokCalls :
            /\ KeyOf(c) = e.key
            /\ token[c].pc = "returned"
            /\ token[c].fetched = 1
            /\ token[c].result = e.data)
    /\ [][\A c \in TokCalls :
            (token[c].pc # "threw" /\ token'[c].pc = "threw") => cache' = cache]_vars
    /\ [][\A c \in TokCalls :
            (/\ StartsCall(c)
             /\ \E d \in TokCalls : token[d].pc = "threw"
                    /\ KeyOf(d) = CacheKey(token'[c].provider)
             /\ \A d \in TokCalls :
                    (d # c /\ token[d].pc # "none"
                        /\ KeyOf(d) = CacheKey(token'[c].provider))
                      => token[d].pc = "threw")
               => fetches' = fetches + 1 /\ token'[c].pc = "fetching"]_vars

FetchedAgainAfterFailure ==
    /\ token[1].provider = "azure-speech"
    /\ token[1].pc = "threw"
    /\ token[1].trips = 1
    /\ token[2].provider = "azure-speech"
    /\ token[2].pc = "returned"
    /\ token[2].fetched = 1
    /\ fetches = 2
    /\ issued = 1

\* C11: a call answered from the cache returns a credential whose age, the
\* clock of the call less the credential's issuedAt, is below the lifetime
\* of expiresIn seconds its issuer declared, for every key.
HitYoungerThanLifetime ==
    [][\A c \in TokCalls :
          (StartsCall(c) /\ token'[c].pc = "returned")
             => wallClock - token'[c].result.issuedAt
                    < token'[c].result.expiresIn * 1000]_vars

(***************************************************************************)
(* The broker.                                                             *)
(***************************************************************************)
BrokerInit ==
    /\ TtsConstructed /\ audio = [c \in Calls |-> Durations]
    /\ TokConstructed /\ env \in Envs
    /\ BrokerIdle /\ StreamIdle /\ RouteIdle /\ ClientIdle /\ VoiceIdle

BrokerNext ==
    \/ Construct /\ UNCHANGED exceptBroker
    \/ \E c \in GetCalls, providerName \in Providers :
            GetToken(c, providerName) /\ UNCHANGED exceptBroker
    \/ \E c \in GetCalls : AdapterResolves(c) /\ UNCHANGED exceptBroker
    \/ \E c \in GetCalls : AdapterRejects(c) /\ UNCHANGED exceptBroker
    \/ GetAvailableProviders /\ UNCHANGED exceptBroker
    \/ \E providerName \in Providers :
            HasProvider(providerName) /\ UNCHANGED exceptBroker
    \/ GetProviderInfo /\ UNCHANGED exceptBroker

BrokerSpec == BrokerInit /\ [][BrokerNext]_vars

\* the adapter's getToken was called for call c
AdapterCalled(c) == get[c].pc \in {"adapter", "returned", "rejected"}

\* C12: the default is the first provider of the registry; a getToken call
\* without a name calls that provider's adapter; and once the broker is
\* constructed no step changes the default or the registry.
DefaultIsFirstRegistered ==
    /\ [](service.constructed =>
            service.defaultProvider =
                IF service.providers = <<>> THEN "null"
                ELSE service.providers[1])
    /\ [](\A c \in GetCalls :
            (AdapterCalled(c) /\ get[c].providerName = "null")
               => get[c].adapter = service.providers[1])
    /\ [][service.constructed =>
            /\ service'.defaultProvider = service.defaultProvider
            /\ service'.providers = service.providers]_vars

DefaultKeptAcrossCalls ==
    /\ get[1].providerName = "deepgram-speech"
    /\ get[1].pc = "ProviderNotFound"
    /\ get[2].providerName = "azure-speech"
    /\ get[2].pc = "rejected"
    /\ get[3].providerName = "null"
    /\ get[3].pc = "returned"
    /\ get[3].adapter = "azure-speech"
    /\ service.defaultProvider = "azure-speech"

\* C13: a getToken call on a broker whose registry is empty fails with
\* NoProviderConfigured, with or without a provider name; a call naming a
\* provider missing from a registry that is not empty fails with
\* ProviderNotFound; neither calls an adapter.
EmptyRegistryIsNoProvider ==
    \A c \in GetCalls : get[c].pc # "none" =>
        /\ service.providers = <<>>
              => get[c].pc = "NoProviderConfigured" /\ get[c].adapter = "null"
        /\ (/\ service.providers # <<>>
            /\ get[c].providerName # "null"
            /\ ~ProvidersHas(service, get[c].providerName))
              => get[c].pc = "ProviderNotFound" /\ get[c].adapter = "null"

\* C14: constructing the broker never throws; the Azure adapter is in the
\* registry exactly when both its settings are present; and with the Azure
\* adapter misconfigured the registry is empty, getToken() without a name
\* fails with NoProviderConfigured and getAvailableProviders returns [].
MisconfiguredIsSkipped ==
    /\ ~service.threw
    /\ service.constructed =>
          (ProvidersHas(service, "azure-speech")
              <=> (env.AZURE_REGION /\ env.AZURE_API_KEY))
    /\ (service.constructed /\ ~(env.AZURE_REGION /\ env.AZURE_API_KEY)) =>
          /\ service.providers = <<>>
          /\ \A c \in GetCalls :
                (get[c].pc # "none" /\ get[c].providerName = "null")
                   => get[c].pc = "NoProviderConfigured"
          /\ \A i \in 1..Len(available) : available[i] = <<>>

MisconfiguredAzureSkipped ==
    /\ env.AZURE_REGION
    /\ ~env.AZURE_API_KEY
    /\ service.constructed
    /\ get[1].providerName = "null"
    /\ get[1].pc = "NoProviderConfigured"
    /\ Len(available) = 1
    /\ available[1] = <<>>

(***************************************************************************)
(* One translation request, on any of the three services.                  *)
(***************************************************************************)
StreamInit ==
    /\ TtsConstructed /\ audio = [c \in Calls |-> Durations]
    /\ TokIdle /\ BrokerIdle /\ RouteIdle /\ ClientIdle /\ VoiceIdle
    /\ adapter \in Adapters
    /\ llm = NoCall
    /\ attempts = 0
    /\ responses = <<>>
    /\ waited = <<>>
    /\ events = <<>>
    /\ stream = NoStream

StreamNext ==
    \/ TranslateStream /\ UNCHANGED exceptStream
    \/ \E status \in Statuses : FetchResponds(status) /\ UNCHANGED exceptStream
    \/ FetchThrows /\ UNCHANGED exceptStream
    \/ TimerFires /\ UNCHANGED exceptStream
    \/ \E matches \in SeqsUpTo(Parts \cup {<<>>}, MaxMatches) :
            GeminiRead(matches) /\ UNCHANGED exceptStream
    \/ GeminiDone /\ UNCHANGED exceptStream
    \/ GeminiReadThrows /\ UNCHANGED exceptStream
    \/ GoogleOpens /\ UNCHANGED exceptStream
    \/ \E text \in Parts \cup {<<>>} : GoogleChunk(text) /\ UNCHANGED exceptStream
    \/ GoogleEnds /\ UNCHANGED exceptStream
    \/ GoogleThrows /\ UNCHANGED exceptStream
    \/ OpenAIOpens /\ UNCHANGED exceptStream
    \/ \E delta \in Parts \cup {<<>>} : OpenAIDelta(delta) /\ UNCHANGED exceptStream
    \/ OpenAIDone /\ UNCHANGED exceptStream
    \/ OpenAIResolves /\ UNCHANGED exceptStream
    \/ OpenAIRejects /\ UNCHANGED exceptStream
    \/ HandlerCompletes /\ UNCHANGED exceptStream
    \/ HandlerCatches /\ UNCHANGED exceptStream

StreamSpec == StreamInit /\ [][StreamNext]_vars

\* every promise awaited settles and every timer set fires
StreamFairSpec == StreamSpec /\ WF_vars(StreamNext)

(***************************************************************************)
(* Properties of fetchWithRetry and of the services' translateStream.      *)
(***************************************************************************)
\* C15: the delay waited after the Nth of N consecutive transient failures
\* (429 or 500 and above) is 1000 * 2^(N-1) ms, for N up to the 5 attempts.
BackoffDoubles ==
    /\ Len(waited) <= 5
    /\ \A n \in 1..Len(responses) :
          (\A k \in 1..n : responses[k] = 429 \/ responses[k] >= 500)
             => /\ Len(waited) >= n
                /\ waited[n] = 1000 * 2^(n - 1)

FiveDelaysWaited ==
    /\ \A n \in 1..5 : n \in DOMAIN responses /\ responses[n] \in {429, 500}
    /\ waited = <<1000, 2000, 4000, 8000, 16000>>
    /\ llm.pc = "returned"

PermanentFailsAtOnce ==
    \A n \in 1..Len(responses) :
        (/\ ~(responses[n] >= 200 /\ responses[n] <= 299)
         /\ responses[n] # 429
         /\ responses[n] < 500)
           => /\ n = Len(responses)
              /\ attempts = n
              /\ Len(waited) = n - 1
              /\ llm.pc = "returned"
              /\ llm.failed

PermanentAfterRetry ==
    /\ responses = <<429, 500, 499>>
    /\ attempts = 3
    /\ waited = <<1000, 2000>>
    /\ llm.pc = "returned"
    /\ llm.failed

\* C18: a translateStream call that failed and returned has called onChunk
\* with isDone true exactly once, in its last call, with the fallback
\* message, and has returned the fallback message.
FailureEmitsOneFinalFallback ==
    (llm.pc = "returned" /\ llm.failed) =>
        /\ Cardinality({n \in 1..Len(events) : events[n].isDone}) = 1
        /\ events[Len(events)] = [text |-> errorMessage, isDone |-> TRUE]
        /\ llm.result = errorMessage

\* C19: a translateStream call that has returned or rejected, on any of the
\* three services, has called onChunk with isDone true at least once.
FinalEventBeforeReturn ==
    llm.pc \in {"returned", "rejected"} =>
        \E n \in 1..Len(events) : events[n].isDone

(***************************************************************************)
(* Properties of the handler's SSE messages.                               *)
(***************************************************************************)
IsChunk(m) == m.type = "chunk"

ChunkMessages == SelectSeq(stream.sse, IsChunk)

\* C20: with a service that passes accumulated texts (GeminiService,
\* GoogleService), a fallback message after a mid-stream error included,
\* each chunk is what its fullText has beyond the previous message's
\* fullText, and the chunks joined in index order are the last fullText.
ChunksRebuildFullText ==
    adapter \in {"gemini", "google"} =>
        LET cs == ChunkMessages
        IN  /\ \A k \in 1..Len(cs) :
                  (IF k = 1 THEN <<>> ELSE cs[k - 1].fullText) \o cs[k].chunk
                      = cs[k].fullText
            /\ cs # <<>> =>
                  Joined([k \in 1..Len(cs) |-> cs[k].chunk])
                      = cs[Len(cs)].fullText

\* C21: of two consecutive chunk messages of a request the later one's
\* fullText is at least as long as the earlier one's, with every service and
\* whether the call succeeds or fails.
MonotonicFullText ==
    \A k \in 2..Len(ChunkMessages) :
        Len(ChunkMessages[k - 1].fullText) <= Len(ChunkMessages[k].fullText)

\* C22: the k-th chunk message written has index k - 1, a callback call that
\* writes nothing takes no index, and what was written stays as written, in
\* that order.
IndexCountsMessages ==
    /\ [](\A k \in 1..Len(ChunkMessages) : ChunkMessages[k].index = k - 1)
    /\ [](stream.chunkIndex = Len(ChunkMessages))
    /\ [][/\ Len(stream'.sse) >= Len(stream.sse)
          /\ SubSeq(stream'.sse, 1, Len(stream.sse)) = stream.sse]_vars

SuppressedCallTakesNoIndex ==
    /\ adapter = "gemini"
    /\ Len(events) = 3
    /\ events[2].text = events[1].text
    /\ Len(ChunkMessages) = 2
    /\ ChunkMessages[1].index = 0
    /\ ChunkMessages[2].index = 1
    /\ stream.pc = "closed"

\* the texts of the onChunk calls made without isDone
RECURSIVE Pieces(_)
Pieces(calls) ==
    IF calls = <<>> THEN <<>>
    ELSE IF Head(calls).isDone THEN Pieces(Tail(calls))
    ELSE <<Head(calls).text>> \o Pieces(Tail(calls))

\* C23: with OpenAIService, whose updates carry the new text only, the chunk
\* messages are those GoogleService's accumulated updates give for the same
\* pieces: chunk is the piece, fullText is all pieces so far joined.
DeltaStyleNormalized ==
    adapter = "openai" =>
        ChunkMessages =
            OnChunks(NoStream,
                     Accumulated(<<>>, Pieces(events))
                        \o (IF llm.done
                            THEN <<OnChunkCall(llm.fullText, TRUE)>>
                            ELSE <<>>)).sse

\* C30: every source that is started gets as its start time the larger of
\* the audio clock and lastQueuedEndTime, both as they are in the step that
\* starts it (after synthesis and decoding), and so never starts in the past.
StartIsMaxOfClockAndWatermark ==
    [][Len(sources') = Len(sources) + 1 =>
          LET seg == sources'[Len(sources')]
          IN  /\ seg.start = IF currentTime >= lastQueuedEndTime
                                THEN currentTime ELSE lastQueuedEndTime
              /\ seg.start >= currentTime
              /\ currentTime' = currentTime]_vars

\* one source started at the clock, the queue having run out, and a later one
\* started at the end of the queue, ahead of the clock
StartedAtClockThenAtWatermark ==
    /\ Len(sources) = 2
    /\ currentTime = 1000
    /\ sources[1].start = 1000 /\ sources[1].read < 1000
    /\ sources[2].start = sources[2].read /\ sources[2].start > 1000

(***************************************************************************)
(* getLLMService on its own: any text, called more than once.              *)
(***************************************************************************)
RouteInit ==
    /\ TtsConstructed /\ audio = [c \in Calls |-> Durations]
    /\ TokIdle /\ BrokerIdle /\ StreamIdle /\ ClientIdle /\ VoiceIdle
    /\ sentence \in SeqsUpTo(Chars, MaxChars)
    /\ routed = <<>>

RouteNext == Route /\ UNCHANGED exceptRoute

RouteSpec == RouteInit /\ [][RouteNext]_vars

\* the words of a text: the places where a run of other characters starts
WordCount(text) ==
    Cardinality({i \in 1..Len(text) :
                    /\ text[i] \notin WhiteSpace
                    /\ (i = 1 \/ text[i - 1] \in WhiteSpace)})

\* C29: every call of getLLMService returns an OpenAIService when the text
\* has at most three whitespace-separated words and a GoogleService when it
\* has more; calls with the same text return the same class and no call
\* returns any other.
RoutedByWordCount ==
    \A k \in 1..Len(routed) :
        /\ routed[k] \in {"OpenAIService", "GoogleService"}
        /\ routed[k] = "OpenAIService" <=> WordCount(sentence) <= 3
        /\ routed[k] = "GoogleService" <=> WordCount(sentence) > 3
        /\ routed[k] = routed[1]

\* three words with whitespace around them went to OpenAIService twice
ThreePaddedWordsToOpenAI ==
    /\ sentence = <<" ", "a", " ", "a", "\n", "a", " ">>
    /\ routed = <<"OpenAIService", "OpenAIService">>

(***************************************************************************)
(* The request with a backend that need not answer: the timers set fire    *)
(* and the handler runs on once the call has settled, and nothing obliges  *)
(* the backend to respond or the connection to fail.                       *)
(***************************************************************************)
StreamQuietSpec ==
    /\ StreamSpec
    /\ WF_vars(TimerFires /\ UNCHANGED exceptStream)
    /\ WF_vars(HandlerCompletes /\ UNCHANGED exceptStream)
    /\ WF_vars(HandlerCatches /\ UNCHANGED exceptStream)

\* C27: a fetch of fetchWithRetry that is waiting for the generation backend
\* stops waiting, whether or not the backend ever responds.
FetchStopsWaiting ==
    (adapter = "gemini" /\ llm.pc = "fetch") ~> (llm.pc # "fetch")

(***************************************************************************)
(* The page on its own: one translateDetectedText call, any response.      *)
(***************************************************************************)
ClientNext ==
    \/ \E text \in Texts : TranslateDetectedText(text) /\ UNCHANGED exceptClient
    \/ \E ok \in BOOLEAN : ClientFetchResponds(ok) /\ UNCHANGED exceptClient
    \/ ClientFetchThrows /\ UNCHANGED exceptClient
    \/ \E lines \in SeqsUpTo(Lines, MaxLines - Begun(received)),
          cut \in Lines \cup {NoCut} :
            ReaderRead(lines, cut) /\ UNCHANGED exceptClient
    \/ ReaderDone /\ UNCHANGED exceptClient
    \/ ReaderThrows /\ UNCHANGED exceptClient
    \/ ReplayTimer /\ UNCHANGED exceptClient
    \/ AnimationTick /\ UNCHANGED exceptClient
    \/ TtsInitialized /\ UNCHANGED exceptClient
    \/ VoicesResolve /\ UNCHANGED exceptClient
    \/ TtsThrows /\ UNCHANGED exceptClient

ClientSpec == Init /\ [][ClientNext]_vars

\* the lines received so far, in order
ReceivedLines == Flat(received)

ErrorReceived == \E k \in 1..Len(ReceivedLines) : ReceivedLines[k].type = "error"

\* C24: when the response carried an error payload or no translation at all,
\* translateStreamText does not return without having called onChunk: it
\* calls it with a message or it throws.
NoSilentDrop ==
    (client.pc = "returned" /\ (ErrorReceived \/ client.result = <<>>))
        => delivered # <<>>

\* C25: of the onChunk calls of a translateStreamText call that has returned
\* and made any, exactly one has isDone true, and it is the last one.
OneFinalCall ==
    (client.pc = "returned" /\ delivered # <<>>) =>
        \A k \in 1..Len(delivered) : delivered[k].isDone <=> k = Len(delivered)

\* the lines received before the first [DONE]
BeforeDone ==
    LET dones == {k \in 1..Len(ReceivedLines) : ReceivedLines[k].type = "[DONE]"}
    IN  IF dones = {} THEN ReceivedLines
        ELSE SubSeq(ReceivedLines, 1,
                    (CHOOSE k \in dones : \A j \in dones : k <= j) - 1)

IsChunkLine(line) == line.type = "chunk"

\* C26: [DONE] ends the stream: the chunks translateStreamText has collected
\* all come from lines received before the first [DONE].
NothingCollectedAfterDone ==
    Len(client.allChunks) <= Len(SelectSeq(BeforeDone, IsChunkLine))

\* C28: speakQueued is called only after translateStreamText has returned
\* from a response without an error payload, and with the whole translation
\* it returned, whatever the typing animation has shown by then.
SpokenIsFinalTranslation ==
    \A k \in 1..Len(spoken) :
        /\ client.pc = "returned"
        /\ ~ErrorReceived
        /\ spoken[k] = client.result

(***************************************************************************)
(* More properties of the audio queue.                                     *)
(***************************************************************************)
\* a step that starts a source
Enqueues == Len(sources') = Len(sources) + 1

\* the source such a step starts
Enqueued == sources'[Len(sources')]

\* C31: a step that starts a source leaves lastQueuedEndTime at the start
\* time plus the duration plus 0.25 s, which is more than it was; no step
\* of the observer lowers it, and a step that lowers it is a stop().
WatermarkOnlyStopLowers ==
    [][/\ Enqueues =>
              /\ lastQueuedEndTime' = Enqueued.start + Enqueued.duration + 250
              /\ lastQueuedEndTime' > lastQueuedEndTime
       /\ lastQueuedEndTime' < lastQueuedEndTime => stops' = stops + 1]_vars

\* stop() lowered the watermark and the next source raised it again, to
\* less than it had been
LoweredByStopThenRaised ==
    /\ Len(sources) = 2
    /\ stops = 1
    /\ sources[2].epoch = 1
    /\ sources[2].read = 0
    /\ lastQueuedEndTime = EndOf(2) + 250
    /\ lastQueuedEndTime < EndOf(1) + 250

QueueStateOnlyOnEnqueue ==
    [][(lastQueuedEndTime' # lastQueuedEndTime
          \/ maxQueuedDuration' # maxQueuedDuration) => Enqueues]_vars

\* C34: a step of a speakQueued call, whether it ends the call or not,
\* keeps every source already started as it was and starts at most one,
\* no earlier than lastQueuedEndTime.
EnqueueKeepsSources ==
    [][speak' # speak =>
          /\ Len(sources') \in {Len(sources), Len(sources) + 1}
          /\ SubSeq(sources', 1, Len(sources)) = sources
          /\ Enqueues => Enqueued.start >= lastQueuedEndTime]_vars

\* two sources are started, the second after a call between them failed in
\* decoding, and the first is as it was started
DecodeFailedBetweenSources ==
    /\ Len(sources) = 2
    /\ sources[1].call = 2
    /\ sources[2].call = 3
    /\ speak[1] = "rejected"
    /\ stops = 0
    /\ sources[1].start = 0
    /\ sources[2].start = EndOf(1) + 250

RegistryInvariant ==
    /\ [](service.constructed =>
             /\ service.defaultProvider = "null" <=> service.providers = <<>>
             /\ service.providers # <<>>
                   => ProvidersHas(service, service.defaultProvider)
             /\ \A i \in 1..Len(service.providers) :
                   IsConfigured(service.configs[i]))
    /\ [](\A k \in 1..Len(asked) :
             asked[k].call = "getProviderInfo" =>
                LET info == asked[k].info
                    n == Len(info.providers)
                IN  /\ n = Len(service.providers)
                    /\ n > 0 => Cardinality({i \in 1..n :
                                    info.providers[i].isDefault}) = 1
                    /\ \A i \in 1..n : info.providers[i].configured
                    /\ info.defaultProvider = "null" <=> n = 0)
    /\ [][service.constructed =>
             /\ service'.providers = service.providers
             /\ service'.configs = service.configs
             /\ service'.defaultProvider = service.defaultProvider]_vars

\* a getToken for a provider that is not registered, a hasProvider for it
\* and a getProviderInfo, with azure-speech still the one entry and default
RegistryKeptAcrossCalls ==
    /\ service.constructed
    /\ service.providers = <<"azure-speech">>
    /\ getMade = 2
    /\ get[1].pc = "ProviderNotFound"
    /\ get[2].pc = "returned"
    /\ Len(available) = 1
    /\ Len(asked) = 2
    /\ asked[1].call = "hasProvider" /\ asked[1].name = "deepgram-speech"
    /\ ~asked[1].has
    /\ asked[2].call = "getProviderInfo"
    /\ asked[2].info.providers[1].isDefault

(***************************************************************************)
(* The voice list on its own: any list of voices, which stays the same     *)
(* over the run.                                                           *)
(***************************************************************************)
VoiceLists ==
    {list \in SeqsUpTo(AllVoices, MaxVoices) :
        \A i, j \in 1..Len(list) : i # j => list[i] # list[j]}

VoiceInit ==
    /\ TtsConstructed /\ audio = [c \in Calls |-> Durations]
    /\ TokIdle /\ BrokerIdle /\ StreamIdle /\ RouteIdle /\ ClientIdle
    /\ voiceNow = VoiceClockStep
    /\ voicesCache = NoVoicesCache
    /\ voicesCacheTimestamp = 0
    /\ upstream \in VoiceLists
    /\ voiceCalls = <<>>

VoiceNext ==
    \/ VoiceTick /\ UNCHANGED exceptVoice
    \/ \E kind \in {"getVoices", "getRecommendedVoices"},
          languageFilter \in LanguageFilters, forceRefresh \in BOOLEAN,
          maxCount \in 1..MaxVoices :
            GetVoices(kind, languageFilter, forceRefresh, maxCount)
                /\ UNCHANGED exceptVoice
    \/ \E c \in 1..MaxVoiceCalls : VoicesRetrieved(c) /\ UNCHANGED exceptVoice
    \/ \E c \in 1..MaxVoiceCalls : VoicesFail(c) /\ UNCHANGED exceptVoice

VoiceSpec == VoiceInit /\ [][VoiceNext]_vars

\* the voices of a list, as a set
VoiceSet(voices) == {voices[i] : i \in 1..Len(voices)}

\* C38: two getVoices calls with the same language filter that have
\* returned, whether from the cache or from a fetch, before or after a
\* getRecommendedVoices call, returned the same set of voices.
VoicesCacheTransparent ==
    \A c, d \in 1..Len(voiceCalls) :
        (/\ voiceCalls[c].pc = "returned"
         /\ voiceCalls[d].pc = "returned"
         /\ voiceCalls[c].languageFilter = voiceCalls[d].languageFilter)
            => VoiceSet(voiceCalls[c].voices) = VoiceSet(voiceCalls[d].voices)

(***************************************************************************)
(* What translateStreamText keeps of the lines it reads.                   *)
(***************************************************************************)
IsWholeLine(line) == line.part = "whole"

IsMalformedLine(line) == line.type = "malformed" /\ line.part = "whole"

IsCompleteLine(line) == line.type = "complete" /\ line.part = "whole"

\* the lines of a read up to its first completion marker
UpToComplete(lines) ==
    LET marks == {k \in 1..Len(lines) : IsCompleteLine(lines[k])}
    IN  IF marks = {} THEN lines
        ELSE SubSeq(lines, 1, (CHOOSE k \in marks : \A j \in marks : k <= j) - 1)

\* the chunk fields of the whole chunk lines among them
ChunkFields(lines) ==
    LET kept == SelectSeq(lines, LAMBDA line : IsWholeLine(line) /\ IsChunkLine(line))
    IN  [k \in 1..Len(kept) |-> kept[k].chunk]

\* over the reads, with the malformed lines left out
RECURSIVE ChunksWithoutMalformed(_)
ChunksWithoutMalformed(reads) ==
    IF reads = <<>> THEN <<>>
    ELSE ChunkFields(UpToComplete(SelectSeq(Head(reads),
                                            LAMBDA line : ~IsMalformedLine(line))))
            \o ChunksWithoutMalformed(Tail(reads))

\* C35: a data line that is not JSON is skipped and the loop goes on: what
\* translateStreamText has collected, and returns, is what the lines read
\* give with the malformed lines left out, the chunks before and after
\* them in order.
MalformedLineIsSkipped ==
    /\ client.allChunks = ChunksWithoutMalformed(received)
    /\ client.fullTranslation = Joined(ChunksWithoutMalformed(received))
    /\ client.pc = "returned" => client.result = client.fullTranslation

\* a chunk, a malformed line and a chunk in one read, and both chunks returned
ChunksAroundMalformedKept ==
    /\ client.pc = "returned"
    /\ received = <<<<Line("chunk", <<"a", "b">>), Line("malformed", <<>>),
                     Line("chunk", <<"a", "b">>)>>>>
    /\ client.result = <<"a", "b", "a", "b">>
    /\ Len(delivered) = 3

\* the chunk fields of the chunk lines of the body, cut by a read or not
BodyChunks ==
    LET kept == SelectSeq(ReceivedLines,
                          LAMBDA line : IsChunkLine(line) /\ line.part # "tail")
    IN  [k \in 1..Len(kept) |-> kept[k].chunk]

\* C39: however the body is divided into reads, translateStreamText returns
\* the chunk fields of all its chunk lines, joined in order.
ResultIsAllChunksJoined ==
    client.pc = "returned" => client.result = Joined(BodyChunks)
====
